---------------------------- MODULE Spec2Model ----------------------------
(***************************************************************************)
(* A model of the text core of the crowdfunding OCR/NLP service:           *)
(*   ocr_service/services/ocr_service.py   correct_common_ocr_errors,      *)
(*                                         the aggregation part of run_ocr *)
(*   ocr_service/services/nlp_service.py   clean_and_merge_text,           *)
(*                                         extract_enhanced_amounts,       *)
(*                                         extract_crowdfunding_data       *)
(* A text is a sequence of one-character strings.  Python's re module is   *)
(* modelled by a small backtracking matcher over pattern trees, so that    *)
(* every regular expression of the source is written down as a tree.       *)
(***************************************************************************)
EXTENDS Integers, Sequences, FiniteSets, TLC

VARIABLES
    pc,        \* position of the running function
    text,      \* the argument of the function under study
    out1,      \* correct_common_ocr_errors(text)
    out2,      \* correct_common_ocr_errors(out1)
    word,      \* the misread currency word the text starts with
    amount,    \* the amount the text ends with
    all_results,          \* run_ocr: what the readers returned, in order
    result_index,         \* run_ocr: the position of the aggregation loop
    unique_results,       \* run_ocr: the corrected candidates kept so far
    seen_texts,           \* run_ocr: the set of the corrected candidates kept
    original_text,        \* run_ocr: the key original_text of the result
    total_results_found,  \* run_ocr: the key total_results_found of the result
    ocr_successful,       \* run_ocr: the key ocr_successful of the result
    error,                \* run_ocr: str(e) of the exception caught, empty if none
    english_text,         \* run_ocr: the key english_text of the result
    translator,           \* what the translator does with each line it is called for
    segments,             \* translate_text_segments: what translate_to_english returned, line by line
    ocr_result,           \* extract_crowdfunding_data: the bundle it is given
    cleaned_text,         \* extract_crowdfunding_data: clean_and_merge_text(raw_text)
    doc_ents,             \* extract_crowdfunding_data: doc.ents, as <<label, text>> pairs
    pieces_read,          \* the number of pieces the text under study is made of
    amounts,              \* the list extract_enhanced_amounts returned
    result,               \* extract_crowdfunding_data: the record under construction
    project_data,             \* enhance_crowdfunding: request.project_data
    missing_fields,           \* enhance_crowdfunding: request.missing_fields
    images,                   \* enhance_crowdfunding: what the download and the OCR of each image give
    image_index,              \* enhance_crowdfunding: the position of the loop over the images
    enhanced_data_english,    \* enhance_crowdfunding: the English version of the data
    enhanced_data_original,   \* enhance_crowdfunding: the version in the original language
    confidence_scores,        \* enhance_crowdfunding: the score of each field translated or found
    processed_images,         \* enhance_crowdfunding: the number of images a text was read from
    overall_confidence,       \* enhance_crowdfunding: the key overall_confidence, in hundredths
    variant,                  \* run_ocr: the position of the loop over preprocessed_images
    reader,                   \* run_ocr: the position of the loop over readers_to_try
    invoked,                  \* run_ocr: the readers called so far, with what each did
    language                  \* run_ocr: the argument language

ocrVars == <<all_results, result_index, unique_results, seen_texts, original_text, total_results_found,
            ocr_successful, error, english_text, translator, segments>>
nlpVars == <<pieces_read, ocr_result, cleaned_text, doc_ents, amounts, result>>
apiVars == <<project_data, missing_fields, images, image_index, enhanced_data_english,
            enhanced_data_original, confidence_scores, processed_images, overall_confidence>>
scanVars == <<variant, reader, invoked, language>>
vars == <<pc, text, out1, out2, word, amount, ocrVars, nlpVars, apiVars, scanVars>>

(***************************************************************************)
(* Characters                                                              *)
(***************************************************************************)
Yen == "¥"
FwYen == "￥"
En == "円"
NL == "\n"

UpperSeq == <<"A", "B", "C", "D", "E", "F", "G", "H", "I", "J", "K", "L", "M",
              "N", "O", "P", "Q", "R", "S", "T", "U", "V", "W", "X", "Y", "Z">>
LowerSeq == <<"a", "b", "c", "d", "e", "f", "g", "h", "i", "j", "k", "l", "m",
              "n", "o", "p", "q", "r", "s", "t", "u", "v", "w", "x", "y", "z">>
Uppers == {UpperSeq[k] : k \in 1..26}
Digits == {"0", "1", "2", "3", "4", "5", "6", "7", "8", "9"}
\* \w of Python 3: letters, digits and the underscore; the CJK letters of
\* the source's word lists are among them (a character the lexer does not
\* take is written as its code point)
WordChars ==
    Uppers \cup {LowerSeq[k] : k \in 1..26} \cup Digits \cup {"_"}
    \cup {En, "目", "U+6A19", "U+6807", "現", "U+5728", "现", "価", "U+683C", "U+5024", "段",
          "U+5272", "U+5F15"}
\* \s, and what str.strip() removes
Spaces == {" ", NL, "\t", "\r"}

\* str.lower() and str.upper() on one character, str.lower() on a text
LowerCh(c) == IF c \in Uppers THEN LowerSeq[CHOOSE k \in 1..26 : UpperSeq[k] = c] ELSE c
UpperCh(c) ==
    IF \E k \in 1..26 : LowerSeq[k] = c THEN UpperSeq[CHOOSE k \in 1..26 : LowerSeq[k] = c] ELSE c
Lower(s) == <<>> \o [k \in 1..Len(s) |-> LowerCh(s[k])]

(***************************************************************************)
(* Python str helpers                                                      *)
(***************************************************************************)

\* p in s
Contains(s, p) == \E i \in 1..(Len(s) - Len(p) + 1) : \A k \in 1..Len(p) : s[i + k - 1] = p[k]

Min(S) == CHOOSE x \in S : \A y \in S : x <= y
Max(S) == CHOOSE x \in S : \A y \in S : x >= y
\* the least element of S, d if S is empty
FirstOr(S, d) == IF S = {} THEN d ELSE Min(S)

\* s.strip(): what lies between the first and the last character that is
\* not white space
Strip(s) ==
    SubSeq(s, Min({k \in 1..Len(s) : s[k] \notin Spaces} \cup {Len(s) + 1}),
              Max({k \in 1..Len(s) : s[k] \notin Spaces} \cup {0}))

\* s.split('\n'): a sequence of lines, never empty
CutAt(s, cut) == [k \in 1..(Len(cut) - 1) |-> SubSeq(s, cut[k] + 1, cut[k + 1] - 1)]
SplitLines(s) ==
    CutAt(s, <<0>> \o SelectSeq([k \in 1..Len(s) |-> k], LAMBDA k : s[k] = NL) \o <<Len(s) + 1>>)

\* '\n'.join(lines)
RECURSIVE JoinLines(_)
JoinLines(ls) ==
    IF Len(ls) = 0 THEN <<>>
    ELSE IF Len(ls) = 1 THEN ls[1]
    ELSE ls[1] \o <<NL>> \o JoinLines(Tail(ls))

\* the entries of xs whose key was not seen before, in order
RECURSIVE DedupBy(_, _, _)
DedupBy(xs, Key(_), seen) ==
    IF Len(xs) = 0 THEN <<>>
    ELSE IF Key(Head(xs)) \in seen THEN DedupBy(Tail(xs), Key, seen)
    ELSE <<Head(xs)>> \o DedupBy(Tail(xs), Key, seen \cup {Key(Head(xs))})

\* Python integers have no upper limit: a value is kept as the text of its
\* decimal digits without leading zeros, which is also str(value)
PyInt(digits) ==
    SubSeq(digits, FirstOr({i \in 1..Len(digits) : digits[i] # "0"}, Len(digits)), Len(digits))
DigitVal(c) == CHOOSE d \in 0..9 : <<"0", "1", "2", "3", "4", "5", "6", "7", "8", "9">>[d + 1] = c
\* a < b for two such values
IntLess(a, b) ==
    \/ Len(a) < Len(b)
    \/ /\ Len(a) = Len(b)
       /\ \E i \in 1..Len(a) : /\ DigitVal(a[i]) < DigitVal(b[i])
                                /\ \A j \in 1..(i - 1) : a[j] = b[j]

(***************************************************************************)
(* Python re: pattern trees and a backtracking matcher.  A pattern is a    *)
(* sequence of nodes; matching a sequence at position i yields the list of *)
(* its possible outcomes <<end, groups>> in the order in which Python's    *)
(* backtracking tries them, so the first one is the match Python reports.  *)
(***************************************************************************)
Inf == 1000 * 1000    \* the upper limit of * and +

\* the nodes: t is the kind, c a literal text, s a character class (neg: the
\* class is negated), n the nodes inside, lo and hi the limits of a repetition
Lit(cs) == [t |-> "lit", c |-> cs]                                   \* literal text
Rep(S, lo, hi) == [t |-> "rep", s |-> S, neg |-> FALSE, lo |-> lo, hi |-> hi]  \* [S]{lo,hi}
NRep(S, lo, hi) == [t |-> "rep", s |-> S, neg |-> TRUE, lo |-> lo, hi |-> hi]  \* [^S]{lo,hi}
Grp(ns, lo, hi) == [t |-> "grp", n |-> ns, lo |-> lo, hi |-> hi]     \* (?:ns){lo,hi}
Alt(alts) == [t |-> "alt", n |-> alts]                               \* (?:a1|a2|...)
Cap(ns) == [t |-> "cap", n |-> ns]                                   \* (ns)
WB == [t |-> "wb"]                                                    \* \b
BOL == [t |-> "bol"]                                                  \* ^
EOL == [t |-> "eol"]                                                  \* $
LA(ns) == [t |-> "la", n |-> ns]                                     \* (?=ns)
NLA(ns) == [t |-> "nla", n |-> ns]                                   \* (?!ns)

\* one character against a class or a literal, under re.IGNORECASE or not
InClass(ch, S, neg, ic) ==
    neg # (ch \in S \/ (ic /\ (LowerCh(ch) \in S \/ UpperCh(ch) \in S)))

\* the length of the run of class characters that starts at i, at most hi
RunUpTo(s, i, S, neg, ic, last) ==
    FirstOr({k \in (i + 1)..last : ~InClass(s[k], S, neg, ic)}, last + 1) - i
RunLen(s, i, S, neg, ic, hi) ==
    IF i > Len(s) \/ ~InClass(s[i], S, neg, ic) THEN 0
    ELSE RunUpTo(s, i, S, neg, ic, Min({Len(s), i + hi - 1}))

IsWordAt(s, i) == i >= 1 /\ i <= Len(s) /\ s[i] \in WordChars

Here(i) == << <<i, <<>> >> >>

\* the concatenation of the sequences of ss
RECURSIVE Flatten(_)
Flatten(ss) == IF Len(ss) = 0 THEN <<>> ELSE Head(ss) \o Flatten(Tail(ss))

\* the outcomes rs, with the groups gs captured before them put in front
WithGroups(gs, rs) == [m \in 1..Len(rs) |-> <<rs[m][1], gs \o rs[m][2]>>]

RECURSIVE MSeq(_, _, _, _, _)

\* [S]{lo,hi} at i, greedy: the longest run first
RepOutcomes(i, run, lo) ==
    IF run < lo THEN <<>> ELSE [j \in 1..(run - lo + 1) |-> <<i + run - j + 1, <<>> >>]

\* (?:ns){lo,hi} after one round of the group, whose outcomes are once
GrpMore(nd, s, ic, once) ==
    Flatten([j \in 1..Len(once) |->
        WithGroups(once[j][2],
                   MSeq(<<Grp(nd.n, IF nd.lo > 0 THEN nd.lo - 1 ELSE 0, nd.hi - 1)>>,
                        1, s, once[j][1], ic))])

\* (ns) at i: the span of each outcome of ns is the first group
Captured(i, rs) == [j \in 1..Len(rs) |-> <<rs[j][1], << <<i, rs[j][1]>> >> \o rs[j][2]>>]

\* the outcomes of one node at position i
First(nd, s, i, ic) ==
    CASE nd.t = "lit" ->
           IF /\ i + Len(nd.c) - 1 <= Len(s)
              /\ \A j \in 1..Len(nd.c) : s[i + j - 1] = nd.c[j] \/ (ic /\ LowerCh(s[i + j - 1]) = LowerCh(nd.c[j]))
           THEN Here(i + Len(nd.c)) ELSE <<>>
      [] nd.t = "rep" -> RepOutcomes(i, RunLen(s, i, nd.s, nd.neg, ic, nd.hi), nd.lo)
      [] nd.t = "grp" ->
           \* greedy: another round of the group first, then none
           GrpMore(nd, s, ic,
                   IF nd.hi > 0
                   THEN SelectSeq(MSeq(nd.n, 1, s, i, ic), LAMBDA r : r[1] > i)
                   ELSE <<>>)
           \o (IF nd.lo = 0 THEN Here(i) ELSE <<>>)
      [] nd.t = "alt" -> Flatten([a \in 1..Len(nd.n) |-> MSeq(nd.n[a], 1, s, i, ic)])
      [] nd.t = "cap" -> Captured(i, MSeq(nd.n, 1, s, i, ic))
      [] nd.t = "wb"  -> IF IsWordAt(s, i - 1) # IsWordAt(s, i) THEN Here(i) ELSE <<>>
      [] nd.t = "bol" -> IF i = 1 THEN Here(i) ELSE <<>>
      [] nd.t = "eol" ->
           IF i = Len(s) + 1 \/ (i = Len(s) /\ s[i] = NL) THEN Here(i) ELSE <<>>
      [] nd.t = "la"  -> IF Len(MSeq(nd.n, 1, s, i, ic)) > 0 THEN Here(i) ELSE <<>>
      [] nd.t = "nla" -> IF Len(MSeq(nd.n, 1, s, i, ic)) = 0 THEN Here(i) ELSE <<>>

\* for each outcome of the node ns[k], in order, the outcomes of the rest
Then(ns, k, s, ic, first) ==
    Flatten([j \in 1..Len(first) |->
        WithGroups(first[j][2], MSeq(ns, k + 1, s, first[j][1], ic))])

\* the outcomes of the node sequence ns[k..] at position i
MSeq(ns, k, s, i, ic) ==
    IF k > Len(ns) THEN Here(i) ELSE Then(ns, k, s, ic, First(ns[k], s, i, ic))


\* the match at i whose outcomes are rs: the first outcome is Python's
MatchOf(i, rs) ==
    IF Len(rs) = 0 THEN [ok |-> FALSE, start |-> 0, end |-> 0, groups |-> <<>>]
    ELSE [ok |-> TRUE, start |-> i, end |-> rs[1][1], groups |-> rs[1][2]]

\* pattern.match(s, pos): the match that starts exactly at i (none at 0)
MatchAt(pat, s, i, ic) == MatchOf(i, IF i = 0 THEN <<>> ELSE MSeq(pat, 1, s, i, ic))

\* re.search: the leftmost match
ReSearch(pat, s, ic) ==
    MatchAt(pat, s, FirstOr({j \in 1..(Len(s) + 1) : Len(MSeq(pat, 1, s, j, ic)) > 0}, 0), ic)

\* re.finditer: the successive non-overlapping matches from position i on,
\* starts being the positions at which the pattern matches (no pattern of
\* the source matches the empty string, so the scan resumes at the end of
\* the match)
RECURSIVE FindIn(_, _, _, _, _)
FindNext(pat, s, ic, starts, m) ==
    IF ~m.ok THEN <<>>
    ELSE <<m>> \o FindIn(pat, s, IF m.end > m.start THEN m.end ELSE m.end + 1, ic, starts)
FindIn(pat, s, i, ic, starts) ==
    FindNext(pat, s, ic, starts, MatchAt(pat, s, FirstOr({j \in starts : j >= i}, 0), ic))
FindIter(pat, s, ic) ==
    FindIn(pat, s, 1, ic, {j \in 1..(Len(s) + 1) : Len(MSeq(pat, 1, s, j, ic)) > 0})

\* m.group(g); group 0 is the match
Group(s, m, g) ==
    IF g = 0 THEN SubSeq(s, m.start, m.end - 1)
    ELSE SubSeq(s, m.groups[g][1], m.groups[g][2] - 1)

\* a replacement template: literal pieces T(..) and group references G(n)
T(cs) == [g |-> 0, c |-> cs]
G(n) == [g |-> n, c |-> <<>>]
RECURSIVE Expand(_, _, _, _)
Expand(repl, k, s, m) ==
    IF k > Len(repl) THEN <<>>
    ELSE (IF repl[k].g = 0 THEN repl[k].c ELSE Group(s, m, repl[k].g))
         \o Expand(repl, k + 1, s, m)

\* re.sub(pat, repl, s): the text from position i on with the matches
\* ms[k], ms[k+1], ... replaced
RECURSIVE SubMatches(_, _, _, _, _)
SubMatches(repl, s, ms, k, i) ==
    IF k > Len(ms) THEN SubSeq(s, i, Len(s))
    ELSE SubSeq(s, i, ms[k].start - 1) \o Expand(repl, 1, s, ms[k])
         \o SubMatches(repl, s, ms, k + 1, ms[k].end)
ReSub(pat, repl, s) == SubMatches(repl, s, FindIter(pat, s, FALSE), 1, 1)

(***************************************************************************)
(* ocr_service.py: correct_common_ocr_errors                               *)
(***************************************************************************)
\* the words of the source's tables that are used in several places
W == [
    Half |-> <<"H", "a", "l", "f">>,
    Halt |-> <<"H", "a", "l", "t">>,
    Haf |-> <<"H", "a", "f">>,
    Hali |-> <<"H", "a", "l", "i">>,
    Hal |-> <<"H", "a", "l">>,
    OFF |-> <<"O", "F", "F">>,
    AirVision |-> <<"A", "i", "r", "V", "i", "s", "i", "o", "n">>,
    off |-> <<"o", "f", "f">>,
    discount |-> <<"d", "i", "s", "c", "o", "u", "n", "t">>,
    goal |-> <<"g", "o", "a", "l">>,
    target |-> <<"t", "a", "r", "g", "e", "t">>,
    raised |-> <<"r", "a", "i", "s", "e", "d">>,
    funded |-> <<"f", "u", "n", "d", "e", "d">>,
    current |-> <<"c", "u", "r", "r", "e", "n", "t">>,
    price |-> <<"p", "r", "i", "c", "e">>,
    cost |-> <<"c", "o", "s", "t">>,
    value |-> <<"v", "a", "l", "u", "e">>,
    yen |-> <<"y", "e", "n">>,
    CNY |-> <<"C", "N", "Y">>,
    HKD |-> <<"H", "K", "D">>,
    SGD |-> <<"S", "G", "D">>
]

\* s.replace(old, new) as a rule: left to right, non-overlapping
Literal(old, new) == <<<<Lit(old)>>, <<T(new)>>>>

\* the literal table, in the order of the dictionary
Corrections == <<
    Literal(<<"H", "a", "l", "f", " ">>, <<Yen>>),
    Literal(<<"H", "a", "l", "t", " ">>, <<Yen>>),
    Literal(<<"H", "a", "f", " ">>, <<Yen>>),
    Literal(<<"H", "a", "l", "i", " ">>, <<Yen>>),
    Literal(<<"H", "a", "l", " ">>, <<Yen>>),
    Literal(<<"H", " ">>, <<Yen>>),
    Literal(<<"Y", " ">>, <<Yen>>),
    Literal(<<"[", "5">>, <<"A", "S", "U", "S">>),
    Literal(<<"R", "e", "d", " ">>, <<"A", "S", "U", "S", " ">>),
    Literal(<<"A", "f", "t", "e", "r", " ", "r", "e", "d">>, <<"A", "S", "U", "S">>),
    Literal(<<"A", "f", "t", "e", "r", " ", "n">>, <<>>),
    Literal(<<"A", "i", "r", "y", "i", "s", "i", "o", "n">>, <<"A", "i", "r", "V", "i", "s", "i", "o", "n">>),
    Literal(<<"N", "I", "+">>, <<"M", "1">>),
    Literal(<<"N", "I", " ">>, <<"M", "1", " ">>),
    Literal(<<"M", "+">>, <<"M", "1">>),
    Literal(<<"1", "1", "+", ".", "4", "2", "0">>, <<"1", "1", "1", ",", "4", "2", "0">>),
    Literal(<<"1", "0", "S", ",", "8", "0", "0">>, <<"1", "0", "3", ",", "8", "0", "0">>),
    Literal(<<"1", "O", "S", ",", "8", "0", "0">>, <<"1", "0", "3", ",", "8", "0", "0">>),
    Literal(<<"6", "4", ".", "8", "0", "o">>, <<"6", "4", ",", "8", "0", "0">>),
    Literal(<<".", "8", "o", "o">>, <<",", "8", "0", "0">>),
    Literal(<<Yen, " ">>, <<Yen>>),
    Literal(<<" ", Yen>>, <<Yen>>),
    Literal(<<"A", "i", "r", " ", "V", "i", "s", "i", "o", "n">>, <<"A", "i", "r", "V", "i", "s", "i", "o", "n">>),
    Literal(<<"A", "i", "r", " ", "v", "i", "s", "i", "o", "n">>, <<"A", "i", "r", "V", "i", "s", "i", "o", "n">>),
    Literal(<<"M", "T">>, <<"M", "1">>)
>>

DN(n) == Rep(Digits, n, n)
DPlus == Rep(Digits, 1, Inf)
SStar == Rep(Spaces, 0, Inf)

\* r'\bW\s+(\d)' -> r'¥\1'
MisreadSpaced(w) == <<<<WB, Lit(w), Rep(Spaces, 1, Inf), Cap(<<DN(1)>>)>>, <<T(<<Yen>>), G(1)>>>>
\* r'\bW\b(?=\s*\d)' -> r'¥'
MisreadAlone(w) == <<<<WB, Lit(w), WB, LA(<<SStar, DN(1)>>)>>, <<T(<<Yen>>)>>>>
\* r'\bW(\d)' -> r'¥\1'
MisreadJoined(w) == <<<<WB, Lit(w), Cap(<<DN(1)>>)>>, <<T(<<Yen>>), G(1)>>>>

\* the rewrite rules of lines 70-111, in order: <<pattern, replacement>>
RewriteRules == <<
    MisreadSpaced(W.Half), MisreadSpaced(W.Halt), MisreadSpaced(W.Haf),
    MisreadSpaced(W.Hali), MisreadSpaced(W.Hal),
    MisreadAlone(W.Half), MisreadAlone(W.Halt), MisreadAlone(W.Hali), MisreadAlone(W.Hal),
    MisreadJoined(W.Half), MisreadJoined(W.Hali), MisreadJoined(W.Hal),
    \* r'¥(\d{2})(\d{3})(?!\d)' -> r'¥\1,\2'
    <<<<Lit(<<Yen>>), Cap(<<DN(2)>>), Cap(<<DN(3)>>), NLA(<<DN(1)>>)>>,
      <<T(<<Yen>>), G(1), T(<<",">>), G(2)>>>>,
    \* r'¥(\d{3})(\d{3})(?!\d)' -> r'¥\1,\2'
    <<<<Lit(<<Yen>>), Cap(<<DN(3)>>), Cap(<<DN(3)>>), NLA(<<DN(1)>>)>>,
      <<T(<<Yen>>), G(1), T(<<",">>), G(2)>>>>,
    \* r'\b48(\d+)\s*OFF\b' -> r'48% OFF'
    <<<<WB, Lit(<<"4", "8">>), Cap(<<DPlus>>), SStar, Lit(W.OFF), WB>>,
      <<T(<<"4", "8", "%", " ", "O", "F", "F">>)>>>>,
    \* r'\b(\d{2})(\d+)\s*OFF\b' -> r'\1% OFF'
    <<<<WB, Cap(<<DN(2)>>), Cap(<<DPlus>>), SStar, Lit(W.OFF), WB>>,
      <<G(1), T(<<"%", " ", "O", "F", "F">>)>>>>,
    \* r'\b6(\d{3},\d{3})\b' -> r'¥\1'
    <<<<WB, Lit(<<"6">>), Cap(<<DN(3), Lit(<<",">>), DN(3)>>), WB>>,
      <<T(<<Yen>>), G(1)>>>>,
    \* r'\b6(\d{2},\d{3})\b' -> r'¥\1'
    <<<<WB, Lit(<<"6">>), Cap(<<DN(2), Lit(<<",">>), DN(3)>>), WB>>,
      <<T(<<Yen>>), G(1)>>>>,
    \* r'¥(\d+)\.(\d{3})' -> r'¥\1,\2'
    <<<<Lit(<<Yen>>), Cap(<<DPlus>>), Lit(<<".">>), Cap(<<DN(3)>>)>>,
      <<T(<<Yen>>), G(1), T(<<",">>), G(2)>>>>,
    \* r'(\d+)\.(\d{3})\s*(?=¥|$)' -> r'\1,\2'
    <<<<Cap(<<DPlus>>), Lit(<<".">>), Cap(<<DN(3)>>), SStar,
        LA(<<Alt(<<<<Lit(<<Yen>>)>>, <<EOL>>>>)>>)>>,
      <<G(1), T(<<",">>), G(2)>>>>,
    \* r'\b6(\d{3})(\d{3})\b' -> r'¥\1,\2'
    <<<<WB, Lit(<<"6">>), Cap(<<DN(3)>>), Cap(<<DN(3)>>), WB>>,
      <<T(<<Yen>>), G(1), T(<<",">>), G(2)>>>>,
    \* r'\bRed\s+(AirVision|Air\s*Vision)' -> r'ASUS \1'
    <<<<WB, Lit(<<"R", "e", "d">>), Rep(Spaces, 1, Inf),
        Cap(<<Alt(<<<<Lit(W.AirVision)>>,
                    <<Lit(<<"A", "i", "r">>), SStar, Lit(<<"V", "i", "s", "i", "o", "n">>)>>>>)>>)>>,
      <<T(<<"A", "S", "U", "S", " ">>), G(1)>>>>
>>

\* the clean-up rules of lines 153-157, in order
CleanupRules == <<
    \* r'  +' -> ' '
    <<<<Lit(<<" ", " ">>), Rep({" "}, 0, Inf)>>, <<T(<<" ">>)>>>>,
    \* r'\n\s*\n' -> '\n'
    <<<<Lit(<<NL>>), SStar, Lit(<<NL>>)>>, <<T(<<NL>>)>>>>,
    \* r'¥(\d+,\d+)¥' -> r'¥\1 ¥'
    <<<<Lit(<<Yen>>), Cap(<<DPlus, Lit(<<",">>), DPlus>>), Lit(<<Yen>>)>>,
      <<T(<<Yen>>), G(1), T(<<" ", Yen>>)>>>>
>>

\* re.sub(pattern, replacement, s) for each rule from rules[k] on, in order
\* (Len(s) >= 0 is always true: it makes the evaluator compute each step's
\* result before the next step starts, as Python does)
RECURSIVE ApplyRules(_, _, _)
ApplyRules(rules, k, s) ==
    IF k > Len(rules) \/ Len(s) < 0 THEN s
    ELSE ApplyRules(rules, k + 1, ReSub(rules[k][1], rules[k][2], s))

\* a pattern for a line that is a lone minus sign
MinusSignPat == <<BOL, Lit(<<"-">>), EOL>>

\* r'^-\d+$'
NegativeNumberPat == <<BOL, Lit(<<"-">>), DPlus, EOL>>
\* r'^\d{1,3}$'
ShortNumberPat == <<BOL, Rep(Digits, 1, 3), EOL>>
\* every number of one digit is kept too
KeptDigits == {<<"4", "8">>, <<"1", "0", "0">>} \cup {<<d>> : d \in Digits}
\* the numbers kept although they are short: ['48', '100']
KeptNumbers == {<<"4", "8">>, <<"1", "0", "0">>}
\* r'¥(\d{1,3}(?:,\d{3})*)'
PricePat == <<Lit(<<Yen>>), Cap(<<Rep(Digits, 1, 3), Grp(<<Lit(<<",">>), DN(3)>>, 0, Inf)>>)>>

\* the loop of lines 118-148 from line k on; valid is valid_prices
RECURSIVE FilterLines(_, _, _)

\* a line with a yen sign: kept if its first price (price_amount, the text
\* of the first group of m) was not seen before
PriceLine(lines, k, valid, line, m) ==
    IF m.ok /\ Group(line, m, 1) \notin valid
    THEN <<line>> \o FilterLines(lines, k + 1, valid \cup {Group(line, m, 1)})
    ELSE FilterLines(lines, k + 1, valid)

\* what the loop does with the stripped line
FilterLine(lines, k, valid, line) ==
    IF Len(line) = 0 THEN FilterLines(lines, k + 1, valid)
    ELSE IF MatchAt(NegativeNumberPat, line, 1, FALSE).ok
         THEN FilterLines(lines, k + 1, valid)
    ELSE IF MatchAt(ShortNumberPat, line, 1, FALSE).ok /\ line \notin KeptNumbers
         THEN FilterLines(lines, k + 1, valid)
    ELSE IF Contains(line, <<Yen>>)
         THEN PriceLine(lines, k, valid, line, ReSearch(PricePat, line, FALSE))
    ELSE <<line>> \o FilterLines(lines, k + 1, valid)

FilterLines(lines, k, valid) ==
    IF k > Len(lines) THEN <<>> ELSE FilterLine(lines, k, valid, Strip(lines[k]))

correct_common_ocr_errors(t) ==
    Strip(ApplyRules(CleanupRules, 1,
        JoinLines(FilterLines(SplitLines(
            ApplyRules(RewriteRules, 1, ApplyRules(Corrections, 1, t))), 1, {}))))

(***************************************************************************)
(* The correction engine applied to a text and then to its own output, the *)
(* way run_ocr applies it (lines 374 and 385, lines 393-394).              *)
(***************************************************************************)
MaxLines == 2

\* the lines an OCR pass may deliver
LineVocab == {
    <<"H", "a", "l", "f", " ", "6", "4", ",", "8", "0", "0">>,
    <<Yen, "6", "4", ",", "8", "0", "0">>,
    <<Yen, "1", "0", "0", "0">>,
    <<Yen, "1", "0", "0">>,
    <<"-", "1", "2", "4", "8", "9">>,
    <<"4", "8", "%", " ", "O", "F", "F">>,
    <<"4", "8">>,
    <<"7">>,
    <<"A", "i", "r", " ", " ", "V", "i", "s", "i", "o", "n">>,
    <<Yen, "1", ",", "0", "0", "0", " ", Yen, "2", ",", "0", "0", "0">>,
    <<Yen, "2", ",", "0", "0", "0">>,
    <<"E", "a", "r", "l", "y", " ", "B", "i", "l", "l", " ", "P", "r", "i", "c", "e">>
}

\* the text of final_fix_verification.py, lines 23-29
Scenario2Lines == <<
    <<"E", "a", "r", "l", "y", " ", "b", "i", "r", "d", " ", "p", "r", "i", "c", "e", " ", "4", "8", "%", " ", "O", "F", "F">>,
    <<Yen, "1", "2", "4", ",", "8", "9", "6">>,
    <<"H", "a", "l", "f", " ", "6", "4", ",", "8", "0", "0">>,
    <<"4", "8", "%", " ", "O", "F", "F">>,
    <<Yen, "6", "4", ",", "8", "0", "0">>,
    <<"-", "1", "2", "4", "8", "9">>,
    <<"E", "a", "r", "l", "y", " ", "B", "i", "l", "l", " ", "P", "r", "i", "c", "e">>
>>
Scenario2Text == JoinLines(Scenario2Lines)

Init ==
    /\ pc = "input"
    /\ text = <<>>
    /\ out1 = <<>>
    /\ out2 = <<>>
    /\ word = <<>>
    /\ amount = <<>>
    /\ all_results = <<>>
    /\ result_index = 1
    /\ unique_results = <<>>
    /\ seen_texts = {}
    /\ original_text = <<>>
    /\ total_results_found = 0
    /\ ocr_successful = FALSE
    /\ error = <<>>
    /\ english_text = <<>>
    /\ translator = <<>>
    /\ segments = <<>>
    /\ pieces_read = 0
    /\ ocr_result = <<>>
    /\ cleaned_text = <<>>
    /\ doc_ents = <<>>
    /\ amounts = <<>>
    /\ result = <<>>
    /\ project_data = <<>>
    /\ missing_fields = <<>>
    /\ images = <<>>
    /\ image_index = 1
    /\ enhanced_data_english = <<>>
    /\ enhanced_data_original = <<>>
    /\ confidence_scores = <<>>
    /\ processed_images = 0
    /\ overall_confidence = 0
    /\ variant = 1
    /\ reader = 1
    /\ invoked = <<>>
    /\ language = "multi"

\* the OCR pass delivers one more line of the text
ReadLine(l) ==
    /\ pc = "input"
    /\ Len(SplitLines(text)) < MaxLines \/ text = <<>>
    /\ text' = IF text = <<>> THEN l ELSE text \o <<NL>> \o l
    /\ UNCHANGED <<pc, out1, out2, word, amount, ocrVars, nlpVars, apiVars, scanVars>>

\* the OCR pass delivers the text of the verification script
ReadScenario2 ==
    /\ pc = "input"
    /\ text = <<>>
    /\ text' = Scenario2Text
    /\ UNCHANGED <<pc, out1, out2, word, amount, ocrVars, nlpVars, apiVars, scanVars>>

\* corrected_text = correct_common_ocr_errors(clean_text)
Correct ==
    /\ pc = "input"
    /\ pc' = "once"
    /\ out1' = correct_common_ocr_errors(text)
    /\ UNCHANGED <<text, out2, word, amount, ocrVars, nlpVars, apiVars, scanVars>>

\* original_text = correct_common_ocr_errors(original_text)
CorrectAgain ==
    /\ pc = "once"
    /\ pc' = "twice"
    /\ out2' = correct_common_ocr_errors(out1)
    /\ UNCHANGED <<text, out1, word, amount, ocrVars, nlpVars, apiVars, scanVars>>

Next ==
    \/ \E l \in LineVocab : ReadLine(l)
    \/ ReadScenario2
    \/ Correct
    \/ CorrectAgain

Spec == Init /\ [][Next]_vars

\* the number of lines of t that contain p, and that equal p
LinesWith(t, p) == Cardinality({k \in 1..Len(SplitLines(t)) : Contains(SplitLines(t)[k], p)})
LinesEqual(t, p) == Cardinality({k \in 1..Len(SplitLines(t)) : SplitLines(t)[k] = p})

\* C1: correct_common_ocr_errors is idempotent: applied to its own output it
\* returns that output, correct(correct(T)) = correct(T).
C1_Idempotent == pc = "twice" => out2 = out1

\* C2: for the seven-line text of the verification script the engine returns
\* a text with exactly one line containing 64,800, that line being ¥64,800,
\* no line equal to -12489 and exactly one line equal to 48% OFF.
C2_Scenario ==
    (pc # "input" /\ text = Scenario2Text) =>
        /\ LinesWith(out1, <<"6", "4", ",", "8", "0", "0">>) = 1
        /\ LinesEqual(out1, <<Yen, "6", "4", ",", "8", "0", "0">>) = 1
        /\ LinesEqual(out1, <<"-", "1", "2", "4", "8", "9">>) = 0
        /\ LinesEqual(out1, <<"4", "8", "%", " ", "O", "F", "F">>) = 1
C2_ScenarioCorrected == pc = "once" /\ text = Scenario2Text /\ Len(out1) > 0

\* a currency amount as a reader sees it: the yen sign and the whole run of
\* digits and commas after it; its numeric value is that of the digits
AmountPat == <<Lit(<<Yen>>), Cap(<<Rep(Digits \cup {","}, 1, Inf)>>)>>
AmountValuesOf(line, ms) ==
    {PyInt(SelectSeq(Group(line, ms[j], 1), LAMBDA c : c \in Digits)) : j \in 1..Len(ms)}
AmountValues(line) == AmountValuesOf(line, FindIter(AmountPat, line, FALSE))

\* C5: in the output of correct_common_ocr_errors no line contains a currency
\* amount whose numeric value already appears in an earlier line.
C5_NoRepeatedValue ==
    pc # "input" =>
        \A k \in 1..Len(SplitLines(out1)) : \A j \in 1..(k - 1) :
            AmountValues(SplitLines(out1)[j]) \cap AmountValues(SplitLines(out1)[k]) = {}

(***************************************************************************)
(* The correction engine on a misread currency word followed by a well-    *)
(* formed grouped amount (test_ocr_corrections.py, test_ocr_flow.py).      *)
(***************************************************************************)
MaxGroups == 1

MisreadWords == {W.Half, W.Halt, W.Haf, W.Hali, W.Hal}
AmountDigits == {"0", "6"}
Commas(cs) == Cardinality({k \in 1..Len(cs) : cs[k] = ","})

\* the OCR pass reads the currency sign as the word w
ReadWord(w) ==
    /\ pc = "input"
    /\ pc' = "amount"
    /\ word' = w
    /\ UNCHANGED <<text, out1, out2, amount, ocrVars, nlpVars, apiVars, scanVars>>

\* one of the one to three leading digits of the amount
ReadDigit(d) ==
    /\ pc = "amount"
    /\ Len(amount) < 3
    /\ Commas(amount) = 0
    /\ amount' = Append(amount, d)
    /\ UNCHANGED <<pc, text, out1, out2, word, ocrVars, nlpVars, apiVars, scanVars>>

\* one more group of a comma and three digits
ReadGroup(d1, d2, d3) ==
    /\ pc = "amount"
    /\ Len(amount) > 0
    /\ Commas(amount) < MaxGroups
    /\ amount' = amount \o <<",", d1, d2, d3>>
    /\ UNCHANGED <<pc, text, out1, out2, word, ocrVars, nlpVars, apiVars, scanVars>>

\* correct_common_ocr_errors('W A')
CorrectMisread ==
    /\ pc = "amount"
    /\ Len(amount) > 0
    /\ pc' = "once"
    /\ text' = word \o <<" ">> \o amount
    /\ out1' = correct_common_ocr_errors(word \o <<" ">> \o amount)
    /\ UNCHANGED <<out2, word, amount, ocrVars, nlpVars, apiVars, scanVars>>

NextMisread ==
    \/ \E w \in MisreadWords : ReadWord(w)
    \/ \E d \in AmountDigits : ReadDigit(d)
    \/ \E d1, d2, d3 \in AmountDigits : ReadGroup(d1, d2, d3)
    \/ CorrectMisread

SpecMisread == Init /\ [][NextMisread]_vars

\* C3: for a misread word W and a well-formed grouped amount A the engine
\* turns 'W A' into a text that contains the yen sign followed by A and that
\* does not contain W.
C3_MisreadFixed ==
    (pc = "once" /\ word \in MisreadWords) =>
        /\ Contains(out1, <<Yen>> \o amount)
        /\ ~Contains(out1, word)

(***************************************************************************)
(* ocr_service.py: run_ocr with translate_to_english = False, from the     *)
(* readers' results to the returned dictionary.                            *)
(***************************************************************************)
MaxResults == 3

\* what a reader may return for a region of the image
ResultVocab == {
    <<"x">>,
    <<"-", "1", "2">>,
    <<"セ", "ー", "ル">>,
    <<"S", "a", "l", "e">>,
    <<"S", "A", "L", "E">>,
    <<"[", "C", "U", "R", "R", "E", "N", "C", "Y", "]", " ", "A", "f", "t", "e", "r", " ", " ", "n", "7">>
}

\* the method tags of line 367-370, in the order of their removal
MethodTags == <<
    Literal(<<"[", "P", "A", "R", "A", "G", "R", "A", "P", "H", "]", " ">>, <<>>),
    Literal(<<"[", "D", "E", "T", "A", "I", "L", "]", " ">>, <<>>),
    Literal(<<"[", "A", "G", "G", "R", "E", "S", "S", "I", "V", "E", "]", " ">>, <<>>),
    Literal(<<"[", "C", "U", "R", "R", "E", "N", "C", "Y", "]", " ">>, <<>>)
>>
NoTextDetected == <<"N", "o", " ", "t", "e", "x", "t", " ", "d", "e", "t", "e", "c", "t", "e", "d">>

\* sorted(xs, key=..., reverse=True) where Before(a, b) says that the key of
\* a is the greater one: stable, so of two equal keys the earlier entry stays
\* first (the set is that of the entries that come before xs[i])
SortedBy(xs, Before(_, _)) ==
    [p \in 1..Len(xs) |->
        xs[CHOOSE i \in 1..Len(xs) :
            Cardinality({j \in 1..Len(xs) :
                Before(xs[j], xs[i]) \/ (~Before(xs[i], xs[j]) /\ j < i)}) = p - 1]]

\* a reader returns one more result (lines 341-359)
ReadResult(r) ==
    /\ pc = "input"
    /\ Len(all_results) < MaxResults
    /\ all_results' = Append(all_results, r)
    /\ UNCHANGED <<pc, text, out1, out2, word, amount,
                   result_index, unique_results, seen_texts, original_text, total_results_found,
                   ocr_successful, error, english_text, translator, segments, nlpVars, apiVars, scanVars>>

\* every text that is not empty is kept once
KeepNotEmpty(corrected_text) ==
    IF Len(corrected_text) > 0 /\ corrected_text \notin seen_texts
    THEN /\ seen_texts' = seen_texts \cup {corrected_text}
         /\ unique_results' = Append(unique_results, corrected_text)
    ELSE UNCHANGED <<seen_texts, unique_results>>

\* what one round of the loop of lines 365-378 does with corrected_text
KeepUnique(corrected_text) ==
    IF Len(corrected_text) > 1 /\ corrected_text \notin seen_texts
    THEN /\ seen_texts' = seen_texts \cup {corrected_text}
         /\ unique_results' = Append(unique_results, corrected_text)
    ELSE UNCHANGED <<seen_texts, unique_results>>

(***************************************************************************)
(* translation_service.py.  The characters of the three scripts are those  *)
(* that the texts of the model are written with.                           *)
(***************************************************************************)
\* [\u4e00-\u9fff], [\u3040-\u309f\u30a0-\u30ff]
Han ==
    {"人", "価", "円", "功", "品", "売", "始", "援", "早", "段", "现", "現", "目", "结", "製", "開",
     "U+4E2D", "U+5024", "U+5272", "U+5546", "U+5728", "U+5F00", "U+5F15", "U+6210", "U+6301",
     "U+652F", "U+675F", "U+6807", "U+683C", "U+6A19", "U+6B62", "U+7D50", "U+884C", "U+9032",
     "U+9054"}
Kana == {"セ", "ー", "ル", "U+304C", "U+306E"}

\* lines 9-22 (no text of the model has a character of [\uac00-\ud7af])
detect_language(t) ==
    IF \E k \in 1..Len(t) : t[k] \in Han THEN "zh"
    ELSE IF \E k \in 1..Len(t) : t[k] \in Kana THEN "ja"
    ELSE IF \E k \in 1..Len(t) : t[k] \in Uppers \/ UpperCh(t[k]) # t[k] THEN "en"
    ELSE "unknown"

\* line 42: the text goes to the translator
CallsTranslator(t) ==
    /\ Len(Strip(t)) > 0
    /\ detect_language(t) # "en"
    /\ \E k \in 1..Len(t) : t[k] \in Han \cup Kana

\* the failure of the translator goes unnoticed
TranslateUnguarded(t, outcome) ==
    [original_text |-> t, english_text |-> outcome.text,
     detected_language |-> detect_language(t), translation_confidence |-> 80]

\* lines 24-79; outcome is what translator.translate does: it raises (ok
\* is FALSE) or returns a text.  The confidence is counted in hundredths.
translate_to_english(t, outcome) ==
    IF Len(Strip(t)) = 0
    THEN [original_text |-> t, english_text |-> t,
          detected_language |-> "unknown", translation_confidence |-> 0]
    ELSE IF ~CallsTranslator(t)
    THEN [original_text |-> t, english_text |-> t,
          detected_language |-> detect_language(t), translation_confidence |-> 100]
    ELSE IF ~outcome.ok
    THEN [original_text |-> t, english_text |-> t,
          detected_language |-> detect_language(t), translation_confidence |-> 0]
    ELSE [original_text |-> t, english_text |-> outcome.text,
          detected_language |-> detect_language(t), translation_confidence |-> 80]

\* lines 86-105: the results of the lines, in order; a blank line gives
\* empty texts and is not counted (its language is "")
translate_text_segments(t, outcomes) ==
    [k \in 1..Len(SplitLines(t)) |->
        IF Len(Strip(SplitLines(t)[k])) = 0
        THEN [original_text |-> <<>>, english_text |-> <<>>,
              detected_language |-> "", translation_confidence |-> 0]
        ELSE translate_to_english(Strip(SplitLines(t)[k]), outcomes[k])]

\* lines 367-374: the candidate without its method tags, corrected
CorrectedResult(r) == correct_common_ocr_errors(Strip(ApplyRules(MethodTags, 1, r)))

\* one round of the loop of lines 365-378
Aggregate ==
    /\ pc \in {"input", "aggregate"}
    /\ result_index <= Len(all_results)
    /\ pc' = "aggregate"
    /\ result_index' = result_index + 1
    /\ KeepUnique(CorrectedResult(all_results[result_index]))
    /\ UNCHANGED <<text, out1, out2, word, amount,
                   all_results, original_text, total_results_found, ocr_successful, error,
                   english_text, translator, segments, nlpVars, apiVars, scanVars>>

\* the candidates are joined in the order in which they were kept
CombineInOrder ==
    /\ pc \in {"input", "aggregate"}
    /\ result_index > Len(all_results)
    /\ pc' = "combined"
    /\ text' = IF Len(unique_results) > 0 THEN JoinLines(unique_results) ELSE NoTextDetected
    /\ original_text' = correct_common_ocr_errors(text')
    /\ UNCHANGED <<out1, out2, word, amount, all_results, result_index, unique_results, seen_texts,
                   total_results_found, ocr_successful, error, english_text, translator, segments, nlpVars, apiVars, scanVars>>

\* lines 380-385: sort, join (text is what is joined), the final correction
\* pass
Combine ==
    /\ pc \in {"input", "aggregate"}
    /\ result_index > Len(all_results)
    /\ pc' = "combined"
    /\ text' = IF Len(unique_results) > 0
               THEN JoinLines(SortedBy(unique_results, LAMBDA a, b : Len(a) > Len(b)))
               ELSE NoTextDetected
    /\ original_text' = correct_common_ocr_errors(text')
    /\ UNCHANGED <<out1, out2, word, amount, all_results, result_index, unique_results, seen_texts,
                   total_results_found, ocr_successful, error, english_text, translator, segments, nlpVars, apiVars, scanVars>>

\* lines 387-412: the result, with the translation if it is asked for and
\* there is a text; outcomes is what the translator does with each line
Return(translate, outcomes) ==
    /\ pc = "combined"
    /\ pc' = "done"
    /\ total_results_found' = Len(unique_results)
    /\ ocr_successful' = TRUE
    /\ IF translate /\ original_text # NoTextDetected
       THEN /\ \A k \in DOMAIN outcomes : CallsTranslator(SplitLines(original_text)[k]) \/ ~outcomes[k].ok
            /\ translator' = outcomes
            /\ segments' = translate_text_segments(original_text, outcomes)
            /\ original_text' = correct_common_ocr_errors(JoinLines([k \in DOMAIN segments' |-> segments'[k].original_text]))
            /\ english_text' = correct_common_ocr_errors(JoinLines([k \in DOMAIN segments' |-> segments'[k].english_text]))
       ELSE /\ outcomes = [k \in 1..Len(SplitLines(original_text)) |-> [ok |-> FALSE, text |-> <<>>]]
            /\ english_text' = original_text
            /\ UNCHANGED <<original_text, translator, segments>>
    /\ UNCHANGED <<text, out1, out2, word, amount, all_results, result_index, unique_results,
                   seen_texts, error, nlpVars, apiVars, scanVars>>

\* a statement of the loop of lines 365-378 raises e for the candidate at
\* result_index (the candidate 'SALE' is the one for which it may): nothing
\* in the loop catches it, the handler of line 414 does
Raise(e) ==
    /\ pc \in {"input", "aggregate"}
    /\ result_index <= Len(all_results)
    /\ all_results[result_index] = <<"S", "A", "L", "E">>
    /\ pc' = "except"
    /\ error' = e
    /\ UNCHANGED <<text, out1, out2, word, amount, all_results, result_index, unique_results,
                   seen_texts, original_text, total_results_found, ocr_successful,
                   english_text, translator, segments, nlpVars, apiVars, scanVars>>

\* lines 414-442: the English reader is asked for results; failed says that
\* it, or the correction of what it returns, raises again
Fallback(results, failed) ==
    /\ pc = "except"
    /\ pc' = "done"
    /\ original_text' =
           IF failed THEN <<"O", "C", "R", " ", "p", "r", "o", "c", "e", "s", "s", "i", "n", "g", " ", "f", "a", "i", "l", "e", "d", ":", " ">> \o error
           ELSE correct_common_ocr_errors(
                    IF Len(results) > 0 THEN JoinLines(results) ELSE <<"O", "C", "R", " ", "p", "r", "o", "c", "e", "s", "s", "i", "n", "g", " ", "f", "a", "i", "l", "e", "d">>)
    /\ total_results_found' = IF failed THEN 0 ELSE Len(results)
    /\ ocr_successful' = FALSE
    /\ english_text' = original_text'
    /\ UNCHANGED <<text, out1, out2, word, amount, all_results, result_index, unique_results,
                   seen_texts, error, translator, segments, nlpVars, apiVars, scanVars>>

NextOcr ==
    \/ \E r \in ResultVocab : ReadResult(r)
    \/ Aggregate
    \/ Combine
    \/ \E translate \in BOOLEAN :
           \E outcomes \in [1..Len(SplitLines(original_text)) ->
                                {[ok |-> FALSE, text |-> <<>>], [ok |-> TRUE, text |-> <<"S", "a", "l", "e">>]}] :
               Return(translate, outcomes)
    \/ \E e \in {<<"b", "o", "o", "m">>} : Raise(e)
    \/ \E results \in {<<>>, <<<<"S", "a", "l", "e">>>>, <<<<"S", "A", "L", "E">>, <<Yen, "6", "4", ",", "8", "0", "0">>>>}, failed \in BOOLEAN : Fallback(results, failed)

SpecOcr == Init /\ [][NextOcr]_vars

\* C13: when every candidate is empty or of length 1 at most after the
\* removal of the tags and the correction, run_ocr without translation
\* returns the original_text 'No text detected' and total_results_found 0.
C13_NothingSurvives ==
    (/\ pc = "done"
     /\ \A i \in 1..Len(all_results) :
            Len(CorrectedResult(all_results[i])) <= 1) =>
        original_text = NoTextDetected /\ total_results_found = 0
\* three candidates, none of which survives: one of one letter, one that the
\* correction empties
C13_ShortCandidatesOnly ==
    /\ pc = "done"
    /\ all_results = <<<<"x">>, <<"-", "1", "2">>, <<"x">>>>
    /\ original_text = NoTextDetected
    /\ total_results_found = 0

\* C14: the text that run_ocr joins before the final correction pass (it
\* gets there when nothing has raised) has each distinct corrected candidate that is kept (those longer than one
\* character) on exactly one line; the lines are in non-increasing order of
\* length, and of two lines of equal length the one whose candidate was
\* produced first comes first.
C14_JoinedOnceByLength ==
    (pc = "done" /\ ocr_successful /\ total_results_found > 0) =>
        /\ {SplitLines(text)[p] : p \in 1..Len(SplitLines(text))}
               = {CorrectedResult(all_results[i]) : i \in 1..Len(all_results)}
                     \ {c \in {CorrectedResult(all_results[i]) : i \in 1..Len(all_results)} : Len(c) <= 1}
        /\ \A p, q \in 1..Len(SplitLines(text)) :
               p < q =>
                   /\ SplitLines(text)[p] # SplitLines(text)[q]
                   /\ Len(SplitLines(text)[p]) >= Len(SplitLines(text)[q])
                   /\ Len(SplitLines(text)[p]) = Len(SplitLines(text)[q]) =>
                          Min({i \in 1..Len(all_results) :
                                  CorrectedResult(all_results[i]) = SplitLines(text)[p]})
                          < Min({i \in 1..Len(all_results) :
                                    CorrectedResult(all_results[i]) = SplitLines(text)[q]})
\* a candidate read twice, and one of the same length after it
C14_RepeatedAndEqualLength ==
    /\ pc = "done"
    /\ all_results = <<<<"S", "A", "L", "E">>, <<"S", "a", "l", "e">>, <<"S", "A", "L", "E">>>>
    /\ text = <<"S", "A", "L", "E", NL, "S", "a", "l", "e">>

C17_TranslatorFailureKept ==
    (pc = "done" /\ Len(segments) > 0) =>
        /\ ocr_successful
        /\ error = <<>>
        /\ Len(segments) = Len(SplitLines(correct_common_ocr_errors(text)))
        /\ \A k \in 1..Len(segments) :
               /\ segments[k].original_text = Strip(SplitLines(correct_common_ocr_errors(text))[k])
               /\ (CallsTranslator(segments[k].original_text) /\ ~translator[k].ok) =>
                      /\ segments[k].english_text = segments[k].original_text
                      /\ segments[k].translation_confidence = 0
\* a text of two lines, the translator fails on the Japanese one
C17_TranslatorFailed ==
    /\ pc = "done"
    /\ Len(segments) = 2
    /\ \E k \in 1..2 :
           /\ CallsTranslator(segments[k].original_text)
           /\ ~translator[k].ok
           /\ segments[k].english_text = <<"セ", "ー", "ル">>
    /\ ocr_successful

\* C4: the text that run_ocr aggregates never contains two lines that
\* differ only in letter case.
C4_NoCaseDuplicates ==
    pc = "done" =>
        \A i, j \in 1..Len(SplitLines(original_text)) :
            Lower(SplitLines(original_text)[i]) = Lower(SplitLines(original_text)[j])
                => SplitLines(original_text)[i] = SplitLines(original_text)[j]

(***************************************************************************)
(* nlp_service.py: extract_enhanced_amounts                                *)
(***************************************************************************)
NumRun == Rep(Digits \cup {","}, 1, Inf)                    \* [\d,]+
ColonsSpaces == Rep(Spaces \cup {":"}, 0, Inf)      \* [:\s]*
Word(cs) == <<Lit(cs)>>

\* r'([\d,]+)\s*(?:unit s?|CODE|code)': a number and the name of a currency
Named(unit, plural, code) ==
    <<Cap(<<NumRun>>), SStar,
      Alt(<<<<Lit(unit), Rep(plural, 0, 1)>>, Word(code), Word(Lower(code))>>)>>
\* r'(SIGN[\d,]+)'
Signed(sign) == <<Cap(<<Lit(sign), NumRun>>)>>

\* the patterns of lines 58-95, in order; all are used with re.IGNORECASE
AmountPatterns == <<
    <<Alt(<<Word(W.goal), Word(W.target),
            Word(<<"f", "u", "n", "d", "i", "n", "g", " ", "g", "o", "a", "l">>),
            Word(<<"目", "U+6A19">>), Word(<<"目", "U+6807">>)>>),
      ColonsSpaces,
      Cap(<<Rep({"N", "T"}, 0, 1), Rep({"$"}, 0, 1), Rep({"Y", Yen}, 0, 1), Rep({"€"}, 0, 1), Rep({"£"}, 0, 1), NumRun>>)>>,
    <<Alt(<<Word(W.raised), Word(W.funded), Word(W.current),
            Word(<<"現", "U+5728">>), Word(<<"现", "U+5728">>)>>),
      ColonsSpaces,
      Cap(<<Rep({"N", "T"}, 0, 1), Rep({"$"}, 0, 1), Rep({"Y", Yen}, 0, 1), Rep({"€"}, 0, 1), Rep({"£"}, 0, 1), NumRun>>)>>,
    <<Cap(<<Rep({Yen, "Y"}, 1, 1), NumRun>>)>>,
    <<Cap(<<NumRun>>), SStar, Alt(<<Word(W.yen), Word(<<En>>), Word(<<"Y", "E", "N">>)>>)>>,
    <<Lit(<<"Y">>), Cap(<<NumRun>>)>>,
    <<Cap(<<Rep({Yen, FwYen}, 1, 1), NumRun>>)>>,
    <<Cap(<<Rep({"N", "T"}, 0, 1), Lit(<<"$">>), NumRun>>)>>,
    Signed(<<"€">>),
    Signed(<<"£">>),
    Signed(<<"₹">>),
    Signed(<<"₩">>),
    Signed(<<FwYen>>),
    Signed(W.CNY),
    Signed(W.HKD),
    Signed(W.SGD),
    Named(<<"d", "o", "l", "l", "a", "r">>, {"s"}, <<"U", "S", "D">>),
    Named(<<"e", "u", "r", "o">>, {"s"}, <<"E", "U", "R">>),
    Named(<<"p", "o", "u", "n", "d">>, {"s"}, <<"G", "B", "P">>),
    Named(<<"r", "u", "p", "e", "e">>, {"s"}, <<"I", "N", "R">>),
    <<Cap(<<NumRun>>), SStar,
      Alt(<<Word(<<"w", "o", "n">>), Word(<<"K", "R", "W">>), Word(<<"k", "r", "w">>)>>)>>,
    <<Cap(<<DPlus>>), Lit(<<"%">>), SStar,
      Alt(<<Word(W.off), Word(<<"O", "F", "F">>), Word(W.discount)>>)>>,
    <<Alt(<<Word(W.off), Word(<<"O", "F", "F">>), Word(W.discount)>>), ColonsSpaces,
      Cap(<<DPlus>>), Lit(<<"%">>)>>,
    <<Cap(<<Rep({"N", "T"}, 0, 1), Rep({"$"}, 0, 1), Rep({"Y", Yen, FwYen}, 0, 1), Rep({"€"}, 0, 1), Rep({"£"}, 0, 1),
            Rep({"₹"}, 0, 1), Rep({"₩"}, 0, 1), NumRun>>),
      Grp(<<SStar, Alt(<<Word(W.raised), Word(W.funded), Word(W.goal), Word(W.target),
                         Word(W.price), Word(W.cost), Word(W.value)>>)>>, 0, 1)>>
>>

AnyIn(words, s) == \E w \in words : Contains(s, w)

\* numbers[0].replace(',', ''): the digits of the first run of [\d,]+
FirstNumber(amount_str) ==
    SelectSeq(Group(amount_str, ReSearch(<<NumRun>>, amount_str, FALSE), 0), LAMBDA c : c # ",")

\* text[max(0, match.start() - n):min(len(text), match.end() + n)].lower()
Context(t, m, n) ==
    Lower(SubSeq(t, Max({1, m.start - n}), Min({Len(t), m.end + n - 1})))

\* lines 117-126
AmountType(context) ==
    IF AnyIn({W.goal, W.target, <<"目", "U+6A19">>, <<"目", "U+6807">>}, context) THEN "goal"
    ELSE IF AnyIn({W.raised, W.funded, W.current, <<"現", "U+5728">>, <<"现", "U+5728">>}, context) THEN "current"
    ELSE IF AnyIn({W.price, W.cost, W.value, <<"価", "U+683C">>, <<"U+5024", "段">>}, context) THEN "price"
    ELSE IF AnyIn({W.off, W.discount, <<"U+5272", "U+5F15">>}, context) THEN "discount"
    ELSE "unknown"

\* lines 129-154
Currency(amount_str, context) ==
    IF \/ AnyIn({<<Yen>>, <<"Y">>, <<FwYen>>}, amount_str)
       \/ AnyIn({W.yen, <<En>>, <<"j", "p", "y">>}, context)
    THEN <<"J", "P", "Y">>
    ELSE IF Contains(amount_str, <<"$">>)
            \/ AnyIn({<<"d", "o", "l", "l", "a", "r">>, <<"u", "s", "d">>}, context)
    THEN <<"U", "S", "D">>
    ELSE IF Contains(amount_str, <<"€">>)
            \/ AnyIn({<<"e", "u", "r", "o">>, <<"e", "u", "r">>}, context)
    THEN <<"E", "U", "R">>
    ELSE IF Contains(amount_str, <<"£">>)
            \/ AnyIn({<<"p", "o", "u", "n", "d">>, <<"g", "b", "p">>}, context)
    THEN <<"G", "B", "P">>
    ELSE IF Contains(amount_str, <<"₹">>)
            \/ AnyIn({<<"r", "u", "p", "e", "e">>, <<"i", "n", "r">>}, context)
    THEN <<"I", "N", "R">>
    ELSE IF Contains(amount_str, <<"₩">>)
            \/ AnyIn({<<"w", "o", "n">>, <<"k", "r", "w">>}, context)
    THEN <<"K", "R", "W">>
    ELSE IF Contains(amount_str, <<"N", "T">>) THEN <<"T", "W", "D">>
    ELSE IF AnyIn({W.CNY, W.HKD, W.SGD}, amount_str) THEN SubSeq(amount_str, 1, 3)
    ELSE IF AnyIn({Lower(W.CNY), <<"y", "u", "a", "n">>, <<"r", "m", "b">>}, context) THEN W.CNY
    ELSE IF AnyIn({Lower(W.HKD), <<"h", "o", "n", "g", " ", "k", "o", "n", "g">>}, context) THEN W.HKD
    ELSE IF AnyIn({Lower(W.SGD), <<"s", "i", "n", "g", "a", "p", "o", "r", "e">>}, context) THEN W.SGD
    ELSE <<>>

\* no number is taken for a product code
NeverProductCode(amount_str, currency, v) == FALSE

\* lines 157-160: a bare number that looks like a product code
IsProductCode(amount_str, currency, v) ==
    /\ Len(currency) = 0
    /\ \A c \in {"$", Yen, "Y", "€", "£"} : ~Contains(amount_str, <<c>>)
    /\ IntLess(v, <<"1", "0", "0", "0", "0", "0", "0">>)
    /\ Len(v) \in {5, 6, 7}

\* the entry appended for a match, given its value, or nothing
EntryFor(amount_str, context, v) ==
    IF IntLess(v, <<"1", "0">>) \/ IsProductCode(amount_str, Currency(amount_str, context), v) THEN <<>>
    ELSE << [value |-> v, formatted |-> amount_str, type |-> AmountType(context),
             currency |-> Currency(amount_str, context), context |-> Strip(context)] >>

\* lines 103-170 for one match: int('') raises and the match is skipped
EntryWith(amount_str, context, digits) ==
    IF Len(digits) = 0 THEN <<>> ELSE EntryFor(amount_str, context, PyInt(digits))
EntryOf(t, m) == EntryWith(Group(t, m, 1), Context(t, m, 20), FirstNumber(Group(t, m, 1)))

\* the entries of the matches ms of one pattern, in order
EntriesOf(t, ms) == Flatten([j \in 1..Len(ms) |-> EntryOf(t, ms[j])])

\* the loop of lines 99-170
FoundAmounts(t) ==
    Flatten([p \in 1..Len(AmountPatterns) |-> EntriesOf(t, FindIter(AmountPatterns[p], t, TRUE))])

\* every entry is kept
KeepAllAmounts(as) == as

\* lines 174-179: the first entry of each value
UniqueAmounts(as) == DedupBy(as, LAMBDA a : a.value, {})

extract_enhanced_amounts(t) == UniqueAmounts(SortedBy(FoundAmounts(t), LAMBDA a, b : IntLess(b.value, a.value)))

(***************************************************************************)
(* extract_enhanced_amounts on texts put together from pieces.             *)
(***************************************************************************)
MaxPieces == 3

\* pieces of the texts given to extract_enhanced_amounts
AmountPieces == {
    <<Yen>>,
    <<"7">>,
    <<"1", "2", " ">>,
    <<"4", "4", "4", "4", "2", "0">>,
    <<" ", "y", "e", "n">>,
    <<"p", "r", "i", "c", "e", " ">>,
    <<"g", "o", "a", "l", ":">>
}

\* the text grows by one piece
ReadPiece(piece) ==
    /\ pc = "input"
    /\ pieces_read < MaxPieces
    /\ pieces_read' = pieces_read + 1
    /\ text' = text \o piece
    /\ UNCHANGED <<pc, out1, out2, word, amount, ocrVars, ocr_result, cleaned_text, doc_ents, amounts, result, apiVars, scanVars>>

\* amounts = extract_enhanced_amounts(text)
ExtractAmounts ==
    /\ pc = "input"
    /\ pc' = "done"
    /\ amounts' = extract_enhanced_amounts(text)
    /\ UNCHANGED <<text, out1, out2, word, amount, ocrVars, pieces_read, ocr_result, cleaned_text, doc_ents, result, apiVars, scanVars>>

NextAmounts ==
    \/ \E piece \in AmountPieces : ReadPiece(piece)
    \/ ExtractAmounts

SpecAmounts == Init /\ [][NextAmounts]_vars

\* C6: the list returned by extract_enhanced_amounts is strictly decreasing
\* in value: sorted in descending order, no two entries of the same value.
C6_StrictlyDecreasing ==
    pc = "done" =>
        \A i \in 1..Len(amounts) : \A j \in (i + 1)..Len(amounts) :
            IntLess(amounts[j].value, amounts[i].value)
C6_SeveralValuesFound ==
    /\ pc = "done"
    /\ Len(amounts) >= 2
    /\ Len(FoundAmounts(text)) > Len(amounts)

\* C7: extract_enhanced_amounts returns no entry of a value below 10 and no
\* entry with an empty currency and a value from 10,000 to 999,999.
C7_NoNoiseNoCodes ==
    pc = "done" =>
        \A i \in 1..Len(amounts) :
            /\ ~IntLess(amounts[i].value, <<"1", "0">>)
            /\ ~(/\ Len(amounts[i].currency) = 0
                 /\ ~IntLess(amounts[i].value, <<"1", "0", "0", "0", "0">>)
                 /\ IntLess(amounts[i].value, <<"1", "0", "0", "0", "0", "0", "0">>))
C7_BareCodeDropped ==
    /\ pc = "done"
    /\ text = <<"7", "p", "r", "i", "c", "e", " ", "4", "4", "4", "4", "2", "0">>
    /\ amounts = <<>>

(***************************************************************************)
(* nlp_service.py: clean_and_merge_text                                    *)
(***************************************************************************)
\* [line.strip() for line in t.split('\n') if len(line.strip()) >= least]
StrippedLines(t, least) ==
    SelectSeq([k \in 1..Len(SplitLines(t)) |-> Strip(SplitLines(t)[k])],
              LAMBDA l : Len(l) >= least)

\* [\$¥€£NT]
CurrencyGlyphs == {"$", Yen, "€", "£", "N", "T"}

\* the loop of lines 27-47 from unique_lines[i] on
RECURSIVE MergeLines(_, _)
MergeLines(ls, i) ==
    IF i > Len(ls) THEN <<>>
    ELSE IF /\ i < Len(ls)
            /\ MatchAt(<<BOL, Rep(CurrencyGlyphs, 1, 1), EOL>>, ls[i], 1, FALSE).ok
            /\ MatchAt(<<BOL, NumRun, EOL>>, ls[i + 1], 1, FALSE).ok
         THEN <<ls[i] \o ls[i + 1]>> \o MergeLines(ls, i + 2)
    ELSE IF /\ i < Len(ls)
            /\ MatchAt(<<BOL, NumRun, EOL>>, ls[i], 1, FALSE).ok
            /\ MatchAt(<<BOL, Rep(CurrencyGlyphs, 1, 1), NRep({NL}, 0, Inf)>>, ls[i + 1], 1, FALSE).ok
         THEN <<ls[i + 1] \o ls[i]>> \o MergeLines(ls, i + 2)
    ELSE <<ls[i]>> \o MergeLines(ls, i + 1)

\* lines 14-22: the stripped lines that are not blank, the first of each
\* group of lines that are equal in lower case; then the merge
clean_and_merge_text(raw_text) ==
    JoinLines(MergeLines(DedupBy(StrippedLines(raw_text, 1), Lower, {}), 1))

(***************************************************************************)
(* nlp_service.py: extract_crowdfunding_data, one step for each of its     *)
(* rules.  The confidence is counted in hundredths, a title score in       *)
(* tenths.                                                                 *)
(***************************************************************************)
None == <<"None">>

\* d.get(key, default)
Get(d, key, default) == IF key \in DOMAIN d THEN d[key] ELSE default

\* raw_text of line 226
RawText(o) == Get(o, "english_text", Get(o, "original_text", <<>>))

\* the dictionary of lines 235-268
InitialResult(o, cleaned) == [
    target_site |-> None, market |-> None, status |-> <<"L", "i", "v", "e">>, url |-> None,
    image_url |-> None, title |-> None, original_title |-> None,
    project_owner |-> None, owner_website |-> None, owner_sns |-> None,
    owner_country |-> None, contact_info |-> None, achievement_rate |-> None,
    supporters |-> None, amount |-> None, support_amount |-> None,
    crowdfund_start_date |-> None, crowdfund_end_date |-> None,
    start_date |-> None, end_date |-> None,
    current_or_completed_project |-> <<"C", "u", "r", "r", "e", "n", "t">>,
    discount_rate |-> None, currency |-> None, product_code |-> None,
    detected_languages |-> Get(o, "detected_languages", <<>>),
    translation_confidence |-> Get(o, "translation_confidence", 0),
    original_text_available |-> Get(o, "original_text", RawText(o)) # RawText(o),
    extraction_confidence |-> 0,
    raw_text_length |-> Len(cleaned),
    total_ocr_results |-> Get(o, "total_results_found", 0)]

\* the entities spaCy may find, in the order of the text: <<label, text>>
Entities == << <<"PERSON", <<"T", "a", "r", "o">>>>, <<"GPE", <<"J", "a", "p", "a", "n">>>> >>

\* line 230 for a bundle whose english_text is None: raw_text.split raises
\* AttributeError, which nothing catches
RaiseOnNull ==
    /\ pc = "bundle"
    /\ RawText(ocr_result) = None
    /\ pc' = "raised"
    /\ UNCHANGED <<text, out1, out2, word, amount, ocrVars, nlpVars, apiVars, scanVars>>

\* lines 226-268; doc.ents is some list of entities that occur in the text
StartRecord ==
    /\ pc = "bundle"
    /\ RawText(ocr_result) # None
    /\ pc' = "platform"
    /\ cleaned_text' = clean_and_merge_text(RawText(ocr_result))
    /\ \E found \in SUBSET {e \in {Entities[1], Entities[2]} : Contains(cleaned_text', e[2])} :
           doc_ents' = SelectSeq(Entities, LAMBDA e : e \in found)
    /\ result' = InitialResult(ocr_result, cleaned_text')
    /\ UNCHANGED <<text, out1, out2, word, amount, ocrVars, pieces_read, ocr_result, amounts, apiVars, scanVars>>

\* the patterns of lines 271-280 (none has a metacharacter but the bar of
\* the alternatives) and the keywords of lines 541-545, in dictionary order
PlatformPatterns == <<
    <<<<"i", "n", "d", "i", "e", "g", "o", "g", "o">>, {<<"i", "n", "d", "i", "e", "g", "o", "g", "o">>}>>,
    <<<<"k", "i", "c", "k", "s", "t", "a", "r", "t", "e", "r">>, {<<"k", "i", "c", "k", "s", "t", "a", "r", "t", "e", "r">>}>>,
    <<<<"g", "o", "f", "u", "n", "d", "m", "e">>, {<<"g", "o", "f", "u", "n", "d", "m", "e">>, <<"g", "o", " ", "f", "u", "n", "d", " ", "m", "e">>}>>,
    <<<<"f", "u", "n", "d", "r", "a", "z", "r">>, {<<"f", "u", "n", "d", "r", "a", "z", "r">>}>>,
    <<<<"c", "r", "o", "w", "d", "f", "u", "n", "d", "i", "n", "g">>, {<<"c", "r", "o", "w", "d", "f", "u", "n", "d", "i", "n", "g">>}>>,
    <<<<"p", "a", "t", "r", "e", "o", "n">>, {<<"p", "a", "t", "r", "e", "o", "n">>}>>,
    <<<<"w", "e", "f", "u", "n", "d", "e", "r">>, {<<"w", "e", "f", "u", "n", "d", "e", "r">>}>>,
    <<<<"s", "e", "e", "d", "i", "n", "v", "e", "s", "t">>, {<<"s", "e", "e", "d", "i", "n", "v", "e", "s", "t">>}>>
>>

\* the place of the first entry of an ordered table one of whose words
\* occurs in s, 0 if there is none
FirstKey(table, s) == FirstOr({k \in 1..Len(table) : AnyIn(table[k][2], s)}, 0)

\* str.capitalize()
Capitalize(s) == <<>> \o [k \in 1..Len(s) |-> IF k = 1 THEN UpperCh(s[k]) ELSE LowerCh(s[k])]

\* lines 282-288
DetectPlatform ==
    /\ pc = "platform"
    /\ pc' = "title"
    /\ \E k \in {FirstKey(PlatformPatterns, Lower(cleaned_text))} :
           result' = IF k = 0 THEN result
                     ELSE [result EXCEPT !.target_site = Capitalize(PlatformPatterns[k][1]),
                                         !.market = Capitalize(PlatformPatterns[k][1]),
                                         !.extraction_confidence = @ + 20]
    /\ UNCHANGED <<text, out1, out2, word, amount, ocrVars,
                   pieces_read, ocr_result, cleaned_text, doc_ents, amounts, apiVars, scanVars>>

\* lines 297-304: the line is skipped
NotATitle(line) ==
    \/ MatchAt(<<BOL, Rep(Digits \cup Spaces \cup {"$", "%", ",", ".", "/", "-", Yen, "Y", "[", "]"}, 1, Inf), EOL>>,
               line, 1, FALSE).ok
    \/ MatchAt(<<BOL, Lit(<<"[">>), NRep({NL}, 0, Inf), Lit(<<"]">>)>>, line, 1, FALSE).ok
    \/ MatchAt(<<BOL, DPlus, Lit(<<"%">>), SStar, Alt(<<Word(W.off), Word(W.OFF)>>), EOL>>,
               Lower(line), 1, FALSE).ok
    \/ Len(line) < 3

\* lines 307-324, in tenths, for the line at index i (from 0)
TitleScore(line, i) ==
    Len(line) + (8 - i) * 2
    + (IF AnyIn({<<"p", "r", "o", "j", "e", "c", "t">>, <<"c", "a", "m", "p", "a", "i", "g", "n">>, <<"f", "u", "n", "d">>, <<"h", "e", "l", "p">>, <<"s", "u", "p", "p", "o", "r", "t">>}, Lower(line)) THEN 5 ELSE 0)
    + (IF AnyIn({<<"a", "i", "r", "v", "i", "s", "i", "o", "n">>, <<"t", "e", "u", "s">>, <<"m", "i">>, <<"p", "r", "o">>, <<"m", "a", "x">>, <<"m", "i", "n", "i">>}, Lower(line)) THEN 3 ELSE 0)
    + (IF AnyIn({<<"早", "U+5272">>, <<"価", "U+683C">>, <<"U+5546", "品">>, <<"製", "品">>}, line) THEN 4 ELSE 0)
    - (IF (\A k \in 1..Len(line) : line[k] \notin Spaces) /\ Len(line) < 6 /\ line[1] \notin Uppers
       THEN 3 ELSE 0)

\* title_candidates of lines 294-326 as <<score, line>>
TitleCandidates(lines) ==
    SelectSeq([k \in 1..Min({8, Len(lines)}) |-> <<TitleScore(lines[k], k - 1), lines[k]>>],
              LAMBDA c : ~NotATitle(c[2]))

\* line 329: the orders in which the sort may leave the candidates cs.  The
\* scores are sums of floating-point numbers: two sums that are equal in
\* tenths may differ in their last bit, so that either candidate may come
\* first; two sums that differ in tenths keep their order.
SortedTitles(cs) ==
    {[p \in 1..Len(cs) |-> cs[g[p]]] :
        g \in {h \in [1..Len(cs) -> 1..Len(cs)] :
                 \A p, q \in 1..Len(cs) : p < q => h[p] # h[q] /\ cs[h[p]][1] >= cs[h[q]][1]}}

\* lines 335-345; others are the candidates after the best one that may
\* stand in for it
BetterTitle(best, others, lines) ==
    IF Len(others) > 0 THEN others[1][2]
    ELSE IF best[1] # "[" THEN best
    ELSE IF \E k \in 1..Len(lines) : Contains(lines[k], <<Yen>>) \/ Contains(lines[k], <<"Y">>)
         THEN <<"P", "r", "o", "d", "u", "c", "t", " ", "L", "i", "s", "t", "i", "n", "g">>
    ELSE <<"I", "t", "e", "m">>

\* lines 330-345
BestTitle(cands, lines) ==
    IF cands[1][2][1] = "[" \/ Len(cands[1][2]) < 8
    THEN BetterTitle(cands[1][2],
                     SelectSeq(Tail(cands), LAMBDA c : c[1] > 3 /\ c[2][1] # "[" /\ Len(c[2]) > 8),
                     lines)
    ELSE cands[1][2]

\* lines 291-349
SelectTitle ==
    /\ pc = "title"
    /\ pc' = "amounts"
    /\ \E lines \in {StrippedLines(cleaned_text, 2)} : \E cands \in SortedTitles(TitleCandidates(lines)) :
           result' = IF Len(cands) = 0 THEN result
                     ELSE [result EXCEPT !.title = BestTitle(cands, lines),
                                         !.original_title = BestTitle(cands, lines),
                                         !.extraction_confidence = @ + 15]
    /\ UNCHANGED <<text, out1, out2, word, amount, ocrVars,
                   pieces_read, ocr_result, cleaned_text, doc_ents, amounts, apiVars, scanVars>>

\* [a for a in amounts if a["type"] == t]
OfType(as, t) == SelectSeq(as, LAMBDA a : a.type = t)

\* lines 365-373: the goal and the amount raised
Crowdfunding(r, as, goals, currents, prices) ==
    [r EXCEPT !.support_amount = IF Len(goals) > 0 THEN goals[1].formatted
                                 ELSE IF Len(as) >= 2 /\ Len(prices) = 0 THEN as[1].formatted
                                 ELSE @,
              !.amount = IF Len(currents) > 0 THEN currents[1].formatted
                         ELSE IF Len(as) >= 2 /\ Len(prices) = 0 THEN as[2].formatted
                         ELSE @]

\* a single price is all that is looked at
SinglePrice(r, prices, unknowns, crowd) ==
    IF Len(prices) > 0 THEN [r EXCEPT !.amount = prices[1].formatted] ELSE r

\* the amounts of no known type are not looked at
PricesOnly(r, prices, unknowns, crowd) ==
    IF Len(prices) >= 2
    THEN [r EXCEPT !.support_amount =
                       SortedBy(prices, LAMBDA a, b : IntLess(b.value, a.value))[1].formatted,
                   !.amount =
                       SortedBy(prices, LAMBDA a, b : IntLess(a.value, b.value))[1].formatted]
    ELSE IF Len(prices) = 1 THEN [r EXCEPT !.amount = prices[1].formatted]
    ELSE r

\* lines 376-393: the original price and the sale price; crowd says that
\* there is a goal or an amount raised (max and min return the first of
\* the entries of the greatest, of the least value)
Pricing(r, prices, unknowns, crowd) ==
    IF Len(prices) >= 2
    THEN [r EXCEPT !.support_amount =
                       SortedBy(prices, LAMBDA a, b : IntLess(b.value, a.value))[1].formatted,
                   !.amount =
                       SortedBy(prices, LAMBDA a, b : IntLess(a.value, b.value))[1].formatted]
    ELSE IF Len(prices) = 1 THEN [r EXCEPT !.amount = prices[1].formatted]
    ELSE IF Len(unknowns) >= 2 /\ ~crowd
    THEN [r EXCEPT !.support_amount =
                       SortedBy(unknowns, LAMBDA a, b : IntLess(b.value, a.value))[1].formatted,
                   !.amount =
                       SortedBy(unknowns, LAMBDA a, b : IntLess(b.value, a.value))[2].formatted]
    ELSE IF Len(unknowns) = 1 /\ ~crowd THEN [r EXCEPT !.amount = unknowns[1].formatted]
    ELSE r

\* lines 352-373: the amounts are extracted; the goal and the amount raised
AssignAmounts ==
    /\ pc = "amounts"
    /\ pc' = "prices"
    /\ amounts' = extract_enhanced_amounts(cleaned_text)
    /\ result' =
           IF Len(amounts') = 0 THEN result
           ELSE [Crowdfunding(result, amounts', OfType(amounts', "goal"),
                              OfType(amounts', "current"), OfType(amounts', "price"))
                 EXCEPT !.extraction_confidence = @ + 30]
    /\ UNCHANGED <<text, out1, out2, word, amount, ocrVars,
                   pieces_read, ocr_result, cleaned_text, doc_ents, apiVars, scanVars>>

\* lines 375-397: the prices of a product listing, and the currency
AssignPrices ==
    /\ pc = "prices"
    /\ pc' = "percent"
    /\ result' =
           IF Len(amounts) = 0 THEN result
           ELSE [Pricing(result, OfType(amounts, "price"), OfType(amounts, "unknown"),
                         Len(OfType(amounts, "goal")) > 0 \/ Len(OfType(amounts, "current")) > 0)
                 EXCEPT !.currency = amounts[1].currency]
    /\ UNCHANGED <<text, out1, out2, word, amount, ocrVars,
                   pieces_read, ocr_result, cleaned_text, doc_ents, amounts, apiVars, scanVars>>

\* (\d+(?:\.\d+)?)
Decimal == Cap(<<DPlus, Grp(<<Lit(<<".">>), DPlus>>, 0, 1)>>)

\* the patterns of lines 400-406, used with re.IGNORECASE; discount says
\* that the text of the pattern contains 'off' or 'discount' (line 415)
PercentPatterns == <<
    [discount |-> TRUE,
     pat |-> <<Decimal, Lit(<<"%">>), SStar,
               Alt(<<Word(W.off), Word(W.OFF), Word(W.discount), Word(<<"D", "I", "S", "C", "O", "U", "N", "T">>)>>)>>],
    [discount |-> TRUE,
     pat |-> <<Alt(<<Word(W.off), Word(W.OFF), Word(W.discount), Word(<<"D", "I", "S", "C", "O", "U", "N", "T">>)>>),
               ColonsSpaces, Decimal, Lit(<<"%">>)>>],
    [discount |-> FALSE, pat |-> <<Decimal, Lit(<<"%">>)>>],
    [discount |-> FALSE, pat |-> <<Decimal, SStar, Lit(<<"p", "e", "r", "c", "e", "n", "t">>)>>],
    [discount |-> FALSE,
     pat |-> <<Lit(W.funded), SStar, Rep({":", "-"}, 0, 1), SStar, Decimal, Lit(<<"%">>)>>]
>>

\* re.findall for a pattern of one group g: the texts of the group
GroupsOf(t, ms, g) == [j \in 1..Len(ms) |-> Group(t, ms[j], g)]

\* float(m) for a text m of digits with at most one point at dot, as the
\* pair of the integer digits without leading zeros and of the fraction
\* digits without trailing zeros (exact as long as the digits are few)
FloatAt(m, dot) ==
    <<PyInt(SubSeq(m, 1, dot - 1)),
      SubSeq(m, dot + 1, Max({dot} \cup {k \in (dot + 1)..Len(m) : m[k] # "0"}))>>
FloatOf(m) == FloatAt(m, FirstOr({k \in 1..Len(m) : m[k] = "."}, Len(m) + 1))
\* v <= hi for a whole number hi
FloatAtMost(v, hi) == IntLess(v[1], hi) \/ (v[1] = hi /\ Len(v[2]) = 0)
\* f"{v}%"
FloatPercent(v) == v[1] \o <<".">> \o (IF Len(v[2]) = 0 THEN <<"0">> ELSE v[2]) \o <<"%">>

\* the loop of lines 408-428 from the pattern k on
RECURSIVE PercentRates(_, _, _)

\* what the loop does for the pattern k, whose matches within the range
\* are vals: the first one is taken
PercentStep(r, k, t, vals) ==
    IF Len(vals) = 0 THEN PercentRates(r, k + 1, t)
    ELSE IF PercentPatterns[k].discount
    THEN PercentRates([r EXCEPT !.discount_rate = FloatPercent(FloatOf(vals[1])),
                                !.extraction_confidence = @ + 15], k + 1, t)
    ELSE [r EXCEPT !.achievement_rate = FloatPercent(FloatOf(vals[1])),
                   !.extraction_confidence = @ + 20]

PercentRates(r, k, t) ==
    IF k > Len(PercentPatterns) THEN r
    ELSE PercentStep(r, k, t,
             SelectSeq(GroupsOf(t, FindIter(PercentPatterns[k].pat, t, TRUE), 1),
                       LAMBDA m : FloatAtMost(FloatOf(m),
                                      IF PercentPatterns[k].discount THEN <<"1", "0", "0">> ELSE <<"1", "0", "0", "0">>)))

\* lines 400-428
AssignRates ==
    /\ pc = "percent"
    /\ pc' = "code"
    /\ result' = PercentRates(result, 1, cleaned_text)
    /\ UNCHANGED <<text, out1, out2, word, amount, ocrVars,
                   pieces_read, ocr_result, cleaned_text, doc_ents, amounts, apiVars, scanVars>>

\* xs[:n]
Take(xs, n) == SubSeq(xs, 1, Min({n, Len(xs)}))

\* the patterns of lines 431-436, used with re.IGNORECASE
ProductCodePatterns == <<
    <<WB, Cap(<<Rep(Digits, 5, 8)>>), WB>>,
    <<WB, Cap(<<Rep(Uppers, 2, 4), Rep(Digits, 3, 6)>>), WB>>,
    <<WB, Cap(<<Lit(<<"I", "t", "e", "m">>), SStar, Rep({":", "#"}, 0, 1), SStar,
                Rep(WordChars \cup {"-"}, 1, Inf)>>)>>,
    <<WB, Cap(<<Lit(<<"M", "o", "d", "e", "l">>), SStar, Rep({":", "#"}, 0, 1), SStar,
                Rep(WordChars \cup {"-"}, 1, Inf)>>)>>
>>

\* lines 452-460: the code is passed over; as is the list of the amounts
NotACode(code_str, as) ==
    \/ \E j \in 1..Len(as) : as[j].value = code_str
    \/ \E c \in {Yen, "$", "%", "."} : Contains(code_str, <<c>>)
    \/ /\ Len(code_str) > 0
       /\ \A k \in 1..Len(code_str) : code_str[k] \in Digits
       /\ IntLess(PyInt(code_str), <<"1", "0", "0">>)

\* lines 431-464
AssignProductCode ==
    /\ pc = "code"
    /\ pc' = "supporters"
    /\ \E codes \in {SelectSeq(
               Flatten([p \in 1..Len(ProductCodePatterns) |->
                   GroupsOf(cleaned_text, FindIter(ProductCodePatterns[p], cleaned_text, TRUE), 1)]),
               LAMBDA code : ~NotACode(Strip(code), amounts))} :
           result' = IF Len(codes) = 0 THEN result
                     ELSE [result EXCEPT !.product_code = Strip(codes[1]),
                                         !.extraction_confidence = @ + 10]
    /\ UNCHANGED <<text, out1, out2, word, amount, ocrVars,
                   pieces_read, ocr_result, cleaned_text, doc_ents, amounts, apiVars, scanVars>>

\* (\d+(?:,\d{3})*)
Grouped == Cap(<<DPlus, Grp(<<Lit(<<",">>), DN(3)>>, 0, Inf)>>)

\* the patterns of lines 467-472, used with re.IGNORECASE
SupporterPatterns == <<
    <<Grouped, SStar,
      Alt(<<<<Lit(<<"s", "u", "p", "p", "o", "r", "t", "e", "r">>), Rep({"s"}, 0, 1)>>, <<Lit(<<"b", "a", "c", "k", "e", "r">>), Rep({"s"}, 0, 1)>>,
            <<Lit(<<"f", "u", "n", "d", "e", "r">>), Rep({"s"}, 0, 1)>>>>)>>,
    <<Alt(<<<<Lit(<<"s", "u", "p", "p", "o", "r", "t", "e", "r">>), Rep({"s"}, 0, 1)>>, <<Lit(<<"b", "a", "c", "k", "e", "r">>), Rep({"s"}, 0, 1)>>>>),
      ColonsSpaces, Grouped>>,
    <<Grouped, SStar, Lit(<<"人">>), Alt(<<Word(<<"U+304C">>), Word(<<"U+306E">>)>>)>>,
    <<Grouped, SStar, Lit(<<"人">>), Alt(<<Word(<<"U+652F", "U+6301">>), Word(<<"U+652F", "援">>)>>)>>
>>

\* lines 474-484: matches[0] of each pattern that has a match; the first
\* of them whose number is above zero is taken
AssignSupporters ==
    /\ pc = "supporters"
    /\ pc' = "dates"
    /\ \E counts \in {SelectSeq(
               Flatten([p \in 1..Len(SupporterPatterns) |->
                   Take(GroupsOf(cleaned_text,
                                 FindIter(SupporterPatterns[p], cleaned_text, TRUE), 1), 1)]),
               LAMBDA m : \E k \in 1..Len(m) : m[k] \in Digits \ {"0"})} :
           result' = IF Len(counts) = 0 THEN result
                     ELSE [result EXCEPT !.supporters = counts[1],
                                         !.extraction_confidence = @ + 15]
    /\ UNCHANGED <<text, out1, out2, word, amount, ocrVars,
                   pieces_read, ocr_result, cleaned_text, doc_ents, amounts, apiVars, scanVars>>

\* the patterns of extract_enhanced_dates, lines 190-195
DatePatterns == <<
    <<Cap(<<Rep(Digits, 1, 2)>>), Rep({"/", ".", "-"}, 1, 1), Cap(<<Rep(Digits, 1, 2)>>),
      Rep({"/", ".", "-"}, 1, 1), Cap(<<DN(4)>>)>>,
    <<Cap(<<DN(4)>>), Rep({"/", ".", "-"}, 1, 1), Cap(<<Rep(Digits, 1, 2)>>),
      Rep({"/", ".", "-"}, 1, 1), Cap(<<Rep(Digits, 1, 2)>>)>>,
    <<Cap(<<Rep(Digits, 1, 2)>>), Rep(Spaces, 1, Inf), Cap(<<Rep(WordChars, 1, Inf)>>), Rep(Spaces, 1, Inf), Cap(<<DN(4)>>)>>,
    <<Cap(<<Rep(WordChars, 1, Inf)>>), Rep(Spaces, 1, Inf), Cap(<<Rep(Digits, 1, 2)>>), Rep({","}, 0, 1), Rep(Spaces, 1, Inf),
      Cap(<<DN(4)>>)>>
>>

\* lines 205-209
DateType(context) ==
    IF AnyIn({<<"s", "t", "a", "r", "t">>, <<"l", "a", "u", "n", "c", "h">>, <<"b", "e", "g", "a", "n">>, <<"開", "始">>, <<"U+5F00", "始">>}, context) THEN "start"
    ELSE IF AnyIn({<<"e", "n", "d">>, <<"d", "e", "a", "d", "l", "i", "n", "e">>, <<"c", "l", "o", "s", "e">>, <<"U+7D50", "U+675F">>, <<"结", "U+675F">>, <<"f", "i", "n", "i", "s", "h">>}, context) THEN "end"
    ELSE "unknown"

\* lines 199-216 for the matches ms of one pattern
DatesOf(t, ms) ==
    [j \in 1..Len(ms) |->
        [raw |-> Group(t, ms[j], 0),
         groups |-> <<Group(t, ms[j], 1), Group(t, ms[j], 2), Group(t, ms[j], 3)>>,
         type |-> DateType(Context(t, ms[j], 15)),
         context |-> Strip(Context(t, ms[j], 15))]]

extract_enhanced_dates(t) ==
    Flatten([p \in 1..Len(DatePatterns) |-> DatesOf(t, FindIter(DatePatterns[p], t, TRUE))])

\* the first date found is both the start and the end
AssignDatesFirst ==
    /\ pc = "dates"
    /\ pc' = "country"
    /\ \E dates \in {extract_enhanced_dates(cleaned_text)} :
           result' =
               IF Len(dates) = 0 THEN result
               ELSE [result EXCEPT !.start_date = dates[1].raw,
                                   !.crowdfund_start_date = dates[1].raw,
                                   !.end_date = dates[1].raw,
                                   !.crowdfund_end_date = dates[1].raw,
                                   !.extraction_confidence = @ + 10]
    /\ UNCHANGED <<text, out1, out2, word, amount, ocrVars,
                   pieces_read, ocr_result, cleaned_text, doc_ents, amounts, apiVars, scanVars>>

\* lines 487-510 (a date's raw text is never empty, so with a date found
\* end_date is set and line 509 holds)
AssignDates ==
    /\ pc = "dates"
    /\ pc' = "country"
    /\ \E dates \in {extract_enhanced_dates(cleaned_text)} :
       \E starts \in {OfType(dates, "start")} : \E ends \in {OfType(dates, "end")} :
           result' =
               IF Len(dates) = 0 THEN result
               ELSE [result EXCEPT
                        !.start_date = IF Len(starts) > 0 THEN starts[1].raw
                                       ELSE IF Len(dates) >= 2 THEN dates[2].raw ELSE @,
                        !.crowdfund_start_date = IF Len(starts) > 0 THEN starts[1].raw
                                                 ELSE IF Len(dates) >= 2 THEN dates[2].raw ELSE @,
                        !.end_date = IF Len(ends) > 0 THEN ends[1].raw ELSE dates[1].raw,
                        !.crowdfund_end_date = IF Len(ends) > 0 THEN ends[1].raw ELSE dates[1].raw,
                        !.extraction_confidence = @ + 10]
    /\ UNCHANGED <<text, out1, out2, word, amount, ocrVars,
                   pieces_read, ocr_result, cleaned_text, doc_ents, amounts, apiVars, scanVars>>

\* lines 513-518
AssignCountry ==
    /\ pc = "country"
    /\ pc' = "url"
    /\ \E places \in {SelectSeq(doc_ents, LAMBDA e : e[1] \in {"GPE", "LOC"})} :
           result' = IF Len(places) = 0 THEN result
                     ELSE [result EXCEPT !.owner_country = places[1][2],
                                         !.extraction_confidence = @ + 10]
    /\ UNCHANGED <<text, out1, out2, word, amount, ocrVars,
                   pieces_read, ocr_result, cleaned_text, doc_ents, amounts, apiVars, scanVars>>

\* [^\s<>"{}|\\^`[\]]+ (the grave accent is written as its code point)
UrlRun == NRep(Spaces \cup {"<", ">", "\"", "{", "}", "|", "\\", "^", "U+0060", "[", "]"}, 1, Inf)

\* the patterns of lines 521-524
UrlPatterns == <<
    <<Lit(<<"h", "t", "t", "p">>), Rep({"s"}, 0, 1), Lit(<<":", "/", "/">>), UrlRun>>,
    <<Lit(<<"w", "w", "w", ".">>), UrlRun>>
>>

\* lines 526-531: urls[0] of the first pattern that has a match
AssignUrl ==
    /\ pc = "url"
    /\ pc' = "owner"
    /\ \E urls \in {Flatten([p \in 1..Len(UrlPatterns) |->
               Take(GroupsOf(cleaned_text, FindIter(UrlPatterns[p], cleaned_text, FALSE), 0), 1)])} :
           result' = IF Len(urls) = 0 THEN result
                     ELSE [result EXCEPT !.url = urls[1], !.extraction_confidence = @ + 10]
    /\ UNCHANGED <<text, out1, out2, word, amount, ocrVars,
                   pieces_read, ocr_result, cleaned_text, doc_ents, amounts, apiVars, scanVars>>

\* lines 534-538
AssignOwner ==
    /\ pc = "owner"
    /\ pc' = "status"
    /\ \E people \in {SelectSeq(doc_ents, LAMBDA e : e[1] = "PERSON")} :
           result' = IF Len(people) = 0 THEN result
                     ELSE [result EXCEPT !.project_owner = people[1][2],
                                         !.extraction_confidence = @ + 10]
    /\ UNCHANGED <<text, out1, out2, word, amount, ocrVars,
                   pieces_read, ocr_result, cleaned_text, doc_ents, amounts, apiVars, scanVars>>

\* the keywords of lines 541-545, in dictionary order
StatusKeywords == <<
    <<<<"f", "u", "n", "d", "e", "d">>, {<<"f", "u", "n", "d", "e", "d">>, <<"s", "u", "c", "c", "e", "s", "s", "f", "u", "l">>, <<"c", "o", "m", "p", "l", "e", "t", "e", "d">>, <<"U+9054", "U+6210">>, <<"U+6210", "功">>}>>,
    <<<<"c", "a", "n", "c", "e", "l", "l", "e", "d">>, {<<"c", "a", "n", "c", "e", "l", "l", "e", "d">>, <<"c", "a", "n", "c", "e", "l", "e", "d">>, <<"f", "a", "i", "l", "e", "d">>, <<"u", "n", "s", "u", "c", "c", "e", "s", "s", "f", "u", "l">>, <<"U+4E2D", "U+6B62">>}>>,
    <<<<"l", "i", "v", "e">>, {<<"l", "i", "v", "e">>, <<"a", "c", "t", "i", "v", "e">>, <<"o", "n", "g", "o", "i", "n", "g">>, <<"i", "n", " ", "p", "r", "o", "g", "r", "e", "s", "s">>, <<"U+9032", "U+884C", "U+4E2D">>}>>
>>

\* lines 547-551
DetectStatus ==
    /\ pc = "status"
    /\ pc' = "normalize"
    /\ \E k \in {FirstKey(StatusKeywords, Lower(cleaned_text))} :
           result' = IF k = 0 THEN result
                     ELSE [result EXCEPT !.status = Capitalize(StatusKeywords[k][1]),
                                         !.extraction_confidence = @ + 10]
    /\ UNCHANGED <<text, out1, out2, word, amount, ocrVars,
                   pieces_read, ocr_result, cleaned_text, doc_ents, amounts, apiVars, scanVars>>

\* the score is returned as it is
KeepScore ==
    /\ pc = "normalize"
    /\ pc' = "done"
    /\ UNCHANGED <<text, out1, out2, word, amount, ocrVars, nlpVars, apiVars, scanVars>>

\* line 554
Normalize ==
    /\ pc = "normalize"
    /\ pc' = "done"
    /\ result' = [result EXCEPT !.extraction_confidence = Min({100, @})]
    /\ UNCHANGED <<text, out1, out2, word, amount, ocrVars,
                   pieces_read, ocr_result, cleaned_text, doc_ents, amounts, apiVars, scanVars>>

(***************************************************************************)
(* extract_crowdfunding_data on the bundles of texts of a few lines.       *)
(***************************************************************************)
MaxRecordLines == 2
\* the lines of the text of a bundle that run_ocr has not made
MaxBareLines == 1

\* the lines of the texts
RecordLines == {
    <<"p", "r", "i", "c", "e", " ", Yen, "1", "2", "4", ",", "8", "9", "6", " ", Yen, "6", "4", ",", "8", "0", "0">>,
    <<"4", "8", "%", " ", "O", "F", "F">>,
    <<"f", "u", "n", "d", "e", "d", ":", " ", "9", "5", "%">>,
    <<"K", "i", "c", "k", "s", "t", "a", "r", "t", "e", "r", " ", "p", "r", "o", "j", "e", "c", "t", " ", "b", "y", " ", "T", "a", "r", "o", " ", "i", "n", " ", "J", "a", "p", "a", "n">>,
    <<"g", "o", "a", "l", ":", " ", "$", "1", "0", ",", "0", "0", "0", " ", "1", ",", "2", "3", "4", " ", "b", "a", "c", "k", "e", "r", "s">>,
    <<"e", "n", "d", "s", " ", "1", "2", "/", "3", "1", "/", "2", "0", "2", "5", " ", "w", "w", "w", ".", "e", "x", ".", "j", "p">>,
    <<"I", "t", "e", "m", ":", " ", "A", "B", "1", "2", "3", " ", "c", "a", "n", "c", "e", "l", "l", "e", "d">>
}

\* the text grows by one line
ReadRecordLine(l) ==
    /\ pc = "input"
    /\ Len(SplitLines(text)) < MaxRecordLines \/ text = <<>>
    /\ text' = IF text = <<>> THEN l ELSE text \o <<NL>> \o l
    /\ UNCHANGED <<pc, out1, out2, word, amount, ocrVars, nlpVars, apiVars, scanVars>>

\* the bundle run_ocr returns without translation (lines 382, 404-412): of
\* no text it makes the sentinel
OcrBundle(original) ==
    [original_text |-> original, english_text |-> original,
     detected_languages |-> <<"unknown">>, translation_confidence |-> 100,
     ocr_successful |-> TRUE,
     total_results_found |-> IF original = NoTextDetected THEN 0 ELSE Len(SplitLines(original))]

\* extract_crowdfunding_data is given the bundle of run_ocr, a bundle
\* whose english_text is a translation, or a bundle whose english_text is
\* missing, empty or None
Receive(shape) ==
    /\ pc = "input"
    /\ shape = "run_ocr" \/ Len(SplitLines(text)) <= MaxBareLines
    /\ shape = "translated" => Len(text) > 0
    /\ pc' = "bundle"
    /\ ocr_result' =
           CASE shape = "run_ocr" -> OcrBundle(IF text = <<>> THEN NoTextDetected ELSE text)
             [] shape = "translated" ->
                    [original_text |-> <<"Z", "i", "e", "l", ":", " ", "5", "0", "0", " ", "E", "U", "R">>, english_text |-> text,
                     detected_languages |-> <<"de">>, translation_confidence |-> 80]
             [] shape = "missing" -> [original_text |-> text]
             [] shape = "empty" -> [original_text |-> text, english_text |-> <<>>]
             [] shape = "null" -> [original_text |-> text, english_text |-> None]
    /\ UNCHANGED <<text, out1, out2, word, amount, ocrVars,
                   pieces_read, cleaned_text, doc_ents, amounts, result, apiVars, scanVars>>

NextRecord ==
    \/ \E l \in RecordLines : ReadRecordLine(l)
    \/ \E shape \in {"run_ocr", "translated", "missing", "empty", "null"} : Receive(shape)
    \/ RaiseOnNull
    \/ StartRecord
    \/ DetectPlatform
    \/ SelectTitle
    \/ AssignAmounts
    \/ AssignPrices
    \/ AssignRates
    \/ AssignProductCode
    \/ AssignSupporters
    \/ AssignDates
    \/ AssignCountry
    \/ AssignUrl
    \/ AssignOwner
    \/ DetectStatus
    \/ Normalize

SpecRecord == Init /\ [][NextRecord]_vars

(***************************************************************************)
(* Properties of extract_crowdfunding_data, for SpecRecord.                *)
(***************************************************************************)
\* C8: once the amounts are assigned, if the extracted amounts hold at least
\* two entries of the type price, support_amount is the formatted string of
\* a price entry of the greatest value and amount the formatted string of a
\* price entry of the least value.
C8_PriceRoles ==
    (/\ pc \in {"percent", "code", "supporters", "dates", "country", "url", "owner",
                "status", "normalize", "done"}
     /\ Len(OfType(amounts, "price")) >= 2) =>
        \E hi, lo \in {j \in 1..Len(amounts) : amounts[j].type = "price"} :
            /\ \A j \in 1..Len(amounts) :
                   amounts[j].type = "price" =>
                       /\ ~IntLess(amounts[hi].value, amounts[j].value)
                       /\ ~IntLess(amounts[j].value, amounts[lo].value)
            /\ result.support_amount = amounts[hi].formatted
            /\ result.amount = amounts[lo].formatted
\* the record of a text of the two prices 124,896 and 64,800 and of a goal
C8_TwoPricesAndGoal ==
    /\ pc = "done"
    /\ Len(OfType(amounts, "price")) >= 2
    /\ Len(OfType(amounts, "goal")) > 0
    /\ result.support_amount = <<Yen, "1", "2", "4", ",", "8", "9", "6">>
    /\ result.amount = <<Yen, "6", "4", ",", "8", "0", "0">>

\* C9: the record has at most one of discount_rate and achievement_rate;
\* the text '48% OFF' gives the discount_rate '48%' and no achievement_rate,
\* the text 'funded: 95%' the achievement_rate '95%' and no discount_rate.
C9_OneRateOnly ==
    pc = "done" =>
        /\ result.discount_rate = None \/ result.achievement_rate = None
        /\ cleaned_text = <<"4", "8", "%", " ", "O", "F", "F">> =>
               result.discount_rate = <<"4", "8", "%">> /\ result.achievement_rate = None
        /\ cleaned_text = <<"f", "u", "n", "d", "e", "d", ":", " ", "9", "5", "%">> =>
               result.achievement_rate = <<"9", "5", "%">> /\ result.discount_rate = None

\* C10: the record of the bundle whose english_text and original_text are
\* 'No text detected' has no title, amount, rate, date, number of
\* supporters, product code, url, owner or platform, and its
\* extraction_confidence is 0.
C10_SentinelGivesEmptyRecord ==
    (/\ pc = "done"
     /\ Get(ocr_result, "english_text", <<>>) = NoTextDetected
     /\ Get(ocr_result, "original_text", <<>>) = NoTextDetected) =>
        /\ \A f \in {"title", "original_title", "amount", "support_amount", "achievement_rate",
                     "discount_rate", "crowdfund_start_date", "crowdfund_end_date", "start_date",
                     "end_date", "supporters", "product_code", "url", "project_owner",
                     "target_site"} : result[f] = None
        /\ result.extraction_confidence = 0

\* C11: the extraction_confidence of the returned record lies between 0
\* and 1 (100 hundredths); from one rule to the next the running score never
\* decreases, a rule that changes the record raises it (the price rules
\* excepted, whose increment is added when the amounts are found), and the
\* last step is the minimum of the score and 1.
C11_ConfidenceRange ==
    /\ [](pc = "done" => result.extraction_confidence \in 0..100)
    /\ [][(pc \notin {"input", "bundle"}) =>
             IF pc = "normalize"
             THEN result'.extraction_confidence = Min({100, result.extraction_confidence})
             ELSE /\ result'.extraction_confidence >= result.extraction_confidence
                  /\ (result' # result /\ pc # "prices") =>
                         result'.extraction_confidence > result.extraction_confidence]_vars
\* the rules have added more than 1 when the score is clamped
C11_ScoreAboveOne == pc = "normalize" /\ result.extraction_confidence > 100

\* C12: within one run, a field of the record that a rule has given a value
\* keeps this value in every later step (the fields are those that start
\* unset).
C12_NoOverwrite ==
    [][(pc \notin {"input", "bundle"}) =>
          \A f \in {"target_site", "market", "url", "title", "original_title", "project_owner",
                    "owner_country", "achievement_rate", "supporters", "amount", "support_amount",
                    "crowdfund_start_date", "crowdfund_end_date", "start_date", "end_date",
                    "discount_rate", "currency", "product_code"} :
              result[f] # None => result'[f] = result[f]]_vars

\* C16: extract_crowdfunding_data does not raise; the text it works on is
\* that of english_text when the bundle has a non-empty english_text, and
\* that of original_text when english_text is missing, None or empty.
C16_EnglishElseOriginal ==
    (pc \notin {"input", "bundle"}) =>
        /\ pc # "raised"
        /\ cleaned_text =
               clean_and_merge_text(
                   IF Get(ocr_result, "english_text", None) \notin {None, <<>>}
                   THEN ocr_result.english_text
                   ELSE Get(ocr_result, "original_text", <<>>))

(***************************************************************************)
(* nlp_service.py: clean_and_merge_text on the lines of a text             *)
(***************************************************************************)
MaxRawLines == 3

\* lines of an OCR text: an amount in one piece and in two, a word in two
\* spellings, a word that begins with a letter of [\$¥€£NT], a blank line
RawLines == {<<"$">>, <<"1", "0", "0">>, <<"$", "1", "0", "0">>, <<"S", "a", "l", "e">>, <<"S", "A", "L", "E">>, <<"T", "o", "t", "a", "l">>, <<" ">>}

\* the OCR text has one more line
ReadRawLine(l) ==
    /\ pc = "input"
    /\ text = <<>> \/ Len(SplitLines(text)) < MaxRawLines
    /\ text' = IF text = <<>> THEN l ELSE text \o <<NL>> \o l
    /\ UNCHANGED <<pc, out1, out2, word, amount, ocrVars, nlpVars, apiVars, scanVars>>

\* cleaned_text = clean_and_merge_text(raw_text)
Clean ==
    /\ pc = "input"
    /\ pc' = "cleaned"
    /\ cleaned_text' = clean_and_merge_text(text)
    /\ UNCHANGED <<text, out1, out2, word, amount, ocrVars, pieces_read, ocr_result, doc_ents, amounts, result, apiVars, scanVars>>

NextClean ==
    \/ \E l \in RawLines : ReadRawLine(l)
    \/ Clean

SpecClean == Init /\ [][NextClean]_vars

\* the place of the first line of ls that is l but for the case of its letters
FirstPlace(ls, l) == CHOOSE p \in 1..Len(ls) : Lower(ls[p]) = Lower(l) /\ \A q \in 1..(p - 1) : Lower(ls[q]) # Lower(l)

\* no two lines of out are equal but for case, none is blank, and those that
\* are lines of ls come in the order of their first places in ls
DistinctInOrder(out, ls) ==
    /\ \A i, j \in 1..Len(out) : Lower(out[i]) = Lower(out[j]) => i = j
    /\ \A i \in 1..Len(out) : Len(Strip(out[i])) > 0
    /\ \A i, j \in 1..Len(out) :
           (/\ i < j
            /\ \E p \in 1..Len(ls) : Lower(ls[p]) = Lower(out[i])
            /\ \E p \in 1..Len(ls) : Lower(ls[p]) = Lower(out[j]))
               => FirstPlace(ls, out[i]) < FirstPlace(ls, out[j])

\* C18: for every input text, no two lines of the output of
\* clean_and_merge_text are equal when compared case-insensitively, no output
\* line is blank, and the surviving lines keep the relative order of their
\* first occurrence in the input.
C18_DistinctNonBlankInOrder ==
    (pc = "cleaned" /\ cleaned_text # <<>>) =>
        DistinctInOrder(SplitLines(cleaned_text), StrippedLines(text, 1))

\* l is one character of [\$¥€£NT] and m is made of digits and commas
GlyphAndDigits(l, m) ==
    /\ Len(l) = 1
    /\ l[1] \in CurrencyGlyphs
    /\ Len(m) > 0
    /\ \A k \in 1..Len(m) : m[k] \in Digits \cup {","}

\* every line of out is a line of ls, or the glyph followed by the digits of
\* two adjacent lines of ls of which one is a glyph and the other digits
PassedOrMerged(out, ls) ==
    \A i \in 1..Len(out) :
        \/ \E p \in 1..Len(ls) : ls[p] = out[i]
        \/ \E p \in 1..(Len(ls) - 1) :
               \/ GlyphAndDigits(ls[p], ls[p + 1]) /\ out[i] = ls[p] \o ls[p + 1]
               \/ GlyphAndDigits(ls[p + 1], ls[p]) /\ out[i] = ls[p + 1] \o ls[p]

\* C19: clean_and_merge_text merges two adjacent lines only when one of them
\* is a single currency glyph and the other consists of digits and commas
\* only, and the merged line is the glyph followed by the digits; every other
\* line is passed through unchanged.
C19_MergesGlyphWithDigitsOnly ==
    (pc = "cleaned" /\ cleaned_text # <<>>) =>
        PassedOrMerged(SplitLines(cleaned_text), DedupBy(StrippedLines(text, 1), Lower, {}))

\* C20: when every extracted amount is of type unknown, with two amounts or
\* more the record has the largest as support_amount and the second largest
\* as amount; with exactly one amount the record has it as amount and has no
\* support_amount.
C20_UnknownAmounts ==
    (/\ pc \in {"percent", "code", "supporters", "dates", "country", "url", "owner",
                "status", "normalize", "done"}
     /\ Len(amounts) > 0
     /\ \A j \in 1..Len(amounts) : amounts[j].type = "unknown") =>
        IF Len(amounts) >= 2
        THEN \E hi, lo \in 1..Len(amounts) :
                 /\ hi # lo
                 /\ \A j \in 1..Len(amounts) :
                        /\ ~IntLess(amounts[hi].value, amounts[j].value)
                        /\ j # hi => ~IntLess(amounts[lo].value, amounts[j].value)
                 /\ result.support_amount = amounts[hi].formatted
                 /\ result.amount = amounts[lo].formatted
        ELSE /\ result.amount = amounts[1].formatted
             /\ result.support_amount = None
\* the record of a text with the numbers 123, 12, 31 and 2025, none of which
\* has a word that tells what it is
C20_FourUnknownAmounts ==
    /\ pc = "done"
    /\ Len(amounts) = 4
    /\ \A j \in 1..4 : amounts[j].type = "unknown"
    /\ result.support_amount = <<"2", "0", "2", "5">>
    /\ result.amount = <<"1", "2", "3">>

(***************************************************************************)
(* extract_crowdfunding_data on the texts of campaigns with dates, a       *)
(* short name and a word of their state                                    *)
(***************************************************************************)
CampaignLines == {
    <<"W", "i", "d", "g", "e", "t">>,
    <<"[", "S", "A", "L", "E", " ", "n", "o", "w">>,
    <<"l", "a", "u", "n", "c", "h", " ", "1", "/", "2", "/", "2", "0", "2", "5">>,
    <<"5", "/", "6", "/", "2", "0", "2", "5">>,
    <<"2", "0", "2", "5", "-", "0", "7", "-", "0", "8">>,
    <<"f", "a", "i", "l", "e", "d", ",", " ", "e", "n", "d", "e", "d", " ", "3", "/", "4", "/", "2", "0", "2", "5">>,
    <<"C", "a", "m", "p", "a", "i", "g", "n", " ", "u", "n", "s", "u", "c", "c", "e", "s", "s", "f", "u", "l">>
}

NextCampaign ==
    \/ \E l \in CampaignLines : ReadRecordLine(l)
    \/ Receive("run_ocr")
    \/ StartRecord
    \/ DetectPlatform
    \/ SelectTitle
    \/ AssignAmounts
    \/ AssignPrices
    \/ AssignRates
    \/ AssignProductCode
    \/ AssignSupporters
    \/ AssignDates
    \/ AssignCountry
    \/ AssignUrl
    \/ AssignOwner
    \/ DetectStatus
    \/ Normalize

SpecCampaign == Init /\ [][NextCampaign]_vars

\* the dates of record r follow the rule of C21 for the list dates
DatesByRule(r, dates) ==
    /\ r.start_date = r.crowdfund_start_date
    /\ r.end_date = r.crowdfund_end_date
    /\ r.start_date =
           IF \E j \in 1..Len(dates) : dates[j].type = "start"
           THEN dates[CHOOSE j \in 1..Len(dates) :
                          dates[j].type = "start" /\ \A i \in 1..(j - 1) : dates[i].type # "start"].raw
           ELSE IF Len(dates) >= 2 THEN dates[2].raw
           ELSE None
    /\ r.end_date =
           IF \E j \in 1..Len(dates) : dates[j].type = "end"
           THEN dates[CHOOSE j \in 1..Len(dates) :
                          dates[j].type = "end" /\ \A i \in 1..(j - 1) : dates[i].type # "end"].raw
           ELSE IF Len(dates) >= 1 THEN dates[1].raw
           ELSE None

\* C21: in every record start_date equals crowdfund_start_date and end_date
\* equals crowdfund_end_date; start_date is the first date of type start if
\* there is one, else the second date found if there are two, else unset;
\* end_date is the first date of type end if there is one, else the first
\* date found, else unset.
C21_DatesByType ==
    (pc \in {"country", "url", "owner", "status", "normalize", "done"}) =>
        DatesByRule(result, extract_enhanced_dates(cleaned_text))
\* two dates with no word about them: the second is the start, the first
\* the end
C21_SecondDateIsStart ==
    /\ pc = "done"
    /\ cleaned_text = <<"5", "/", "6", "/", "2", "0", "2", "5">> \o <<NL>> \o <<"2", "0", "2", "5", "-", "0", "7", "-", "0", "8">>
    /\ result.start_date = <<"2", "0", "2", "5", "-", "0", "7", "-", "0", "8">>
    /\ result.end_date = <<"5", "/", "6", "/", "2", "0", "2", "5">>

\* w occurs in s as a word: with no letter, digit or underscore next to it
HasWord(s, w) ==
    \E i \in 1..(Len(s) - Len(w) + 1) :
        /\ \A k \in 1..Len(w) : s[i + k - 1] = w[k]
        /\ i = 1 \/ s[i - 1] \notin WordChars
        /\ i + Len(w) > Len(s) \/ s[i + Len(w)] \notin WordChars

\* C22: the status of every record is one of Live, Funded and Cancelled; a
\* text with a word of the cancelled group (cancelled, canceled, failed,
\* unsuccessful) and no word of the funded group (funded, successful,
\* completed) has the status Cancelled, and the status Funded is given only
\* to a text with a word of the funded group.
C22_StatusByKeywords ==
    pc = "done" =>
        /\ result.status \in {<<"L", "i", "v", "e">>, <<"F", "u", "n", "d", "e", "d">>, <<"C", "a", "n", "c", "e", "l", "l", "e", "d">>}
        /\ (/\ \E w \in StatusKeywords[2][2] : HasWord(Lower(cleaned_text), w)
            /\ \A w \in StatusKeywords[1][2] : ~HasWord(Lower(cleaned_text), w))
               => result.status = <<"C", "a", "n", "c", "e", "l", "l", "e", "d">>
        /\ result.status = <<"F", "u", "n", "d", "e", "d">> =>
               \E w \in StatusKeywords[1][2] : HasWord(Lower(cleaned_text), w)

\* the title of record r follows the rule of C23 for the lines of the text
\* and the candidates cands, best first
TitleByRule(r, lines, cands) ==
    (/\ Len(cands) > 0
     /\ cands[1][2][1] = "[" \/ Len(cands[1][2]) < 8
     /\ \A k \in 2..Len(cands) : ~(cands[k][1] > 3 /\ cands[k][2][1] # "[" /\ Len(cands[k][2]) > 8)) =>
        r.title = IF \E k \in 1..Len(lines) : \E g \in {"$", Yen, FwYen, "€", "£"} : Contains(lines[k], <<g>>)
                  THEN <<"P", "r", "o", "d", "u", "c", "t", " ", "L", "i", "s", "t", "i", "n", "g">>
                  ELSE <<"I", "t", "e", "m">>

\* C23: when the candidate of the highest score begins with a bracket or has
\* fewer than 8 characters and no other candidate can stand in for it (score
\* above the threshold, no bracket, more than 8 characters), the title is
\* 'Product Listing' if a line has a currency sign, else 'Item'.
C23_PlaceholderTitle ==
    (pc \in {"amounts", "prices", "percent", "code", "supporters", "dates", "country", "url", "owner",
             "status", "normalize", "done"}) =>
        \A cands \in SortedTitles(TitleCandidates(StrippedLines(cleaned_text, 2))) :
            TitleByRule(result, StrippedLines(cleaned_text, 2), cands)

\* no line of t is a minus sign followed by digits only, or one to three
\* digits other than '48' and '100'
NoBareNumbers(t) ==
    \A k \in 1..Len(SplitLines(t)) :
        /\ ~(/\ Len(SplitLines(t)[k]) >= 2
             /\ SplitLines(t)[k][1] = "-"
             /\ \A i \in 2..Len(SplitLines(t)[k]) : SplitLines(t)[k][i] \in Digits)
        /\ ~(/\ Len(SplitLines(t)[k]) \in 1..3
             /\ \A i \in 1..Len(SplitLines(t)[k]) : SplitLines(t)[k][i] \in Digits
             /\ SplitLines(t)[k] \notin {<<"4", "8">>, <<"1", "0", "0">>})

\* C24: for every input text, no line of the output of
\* correct_common_ocr_errors is a bare negative integer, and no line is a
\* run of 1 to 3 digits other than '48' and '100'.
C24_NoBareNumbers ==
    /\ pc \in {"once", "twice"} => NoBareNumbers(out1)
    /\ pc = "twice" => NoBareNumbers(out2)
\* of the lines '7' and '48' the engine keeps the second
C24_ShortNumberDropped ==
    /\ pc = "once"
    /\ text = <<"7">> \o <<NL>> \o <<"4", "8">>
    /\ out1 = <<"4", "8">>

\* C25: on its success path with no translation run_ocr never returns an
\* empty original_text: the text is 'No text detected' or has a line that is
\* not empty, and it is 'No text detected' whenever total_results_found is 0.
C25_TextOrSentinel ==
    (pc = "done" /\ ocr_successful /\ segments = <<>>) =>
        /\ original_text # <<>>
        /\ \/ original_text = NoTextDetected
           \/ \E k \in 1..Len(SplitLines(original_text)) : Len(SplitLines(original_text)[k]) > 0
        /\ total_results_found = 0 => original_text = NoTextDetected

\* C26: whenever the record has both support_amount and amount, the two come
\* from two different entries of the list of extracted amounts.
C26_TwoDifferentEntries ==
    (/\ pc \in {"percent", "code", "supporters", "dates", "country", "url", "owner",
                "status", "normalize", "done"}
     /\ result.support_amount # None
     /\ result.amount # None) =>
        \E i, j \in 1..Len(amounts) :
            /\ i # j
            /\ result.support_amount = amounts[i].formatted
            /\ result.amount = amounts[j].formatted

\* C27: support_amount and amount are never taken from an entry of type
\* discount: each of them, when set, is the formatted text of an amount of
\* type goal, current, price or unknown.
C27_NeverFromDiscount ==
    (pc \in {"percent", "code", "supporters", "dates", "country", "url", "owner",
             "status", "normalize", "done"}) =>
        \A f \in {"support_amount", "amount"} :
            result[f] # None =>
                \E j \in 1..Len(amounts) :
                    /\ result[f] = amounts[j].formatted
                    /\ amounts[j].type \in {"goal", "current", "price", "unknown"}

(***************************************************************************)
(* app/api/v1/endpoints.py: enhance_crowdfunding.  A dictionary is a       *)
(* function from its keys; a score is counted in hundredths.               *)
(***************************************************************************)
MaxImages == 2

\* d[key] = value
Put(d, key, value) == (key :> value) @@ d

\* the values of line 351 that stand for no value
Placeholders == {<<>>, <<"-">>, <<"U", "n", "k", "n", "o", "w", "n">>, <<"N", "/", "A">>}

\* lines 429-435 and 445-450 (the patterns written with characters that
\* no text of the model has are left out: they do not match)
supporter_patterns == <<
    <<Cap(<<DPlus>>), SStar,
      Alt(<<<<Lit(<<"s", "u", "p", "p", "o", "r", "t", "e", "r">>), Rep({"s"}, 0, 1)>>, <<Lit(<<"b", "a", "c", "k", "e", "r">>), Rep({"s"}, 0, 1)>>,
            Word(<<"p", "e", "o", "p", "l", "e">>), Word(<<"s", "u", "p", "p", "o", "r", "t", "e", "r", "s">>)>>)>>
>>
rate_patterns == <<
    <<Decimal, SStar, Lit(<<"%">>), SStar, Alt(<<Word(<<"a", "c", "h", "i", "e", "v", "e", "d">>), Word(<<"f", "u", "n", "d", "e", "d">>)>>)>>,
    <<Decimal, SStar, Lit(<<"%">>), SStar, Lit(<<"o", "f">>), SStar, Lit(<<"g", "o", "a", "l">>)>>
>>

\* the match of the first pattern, from the k-th on, that is found in t
RECURSIVE FirstMatch(_, _, _)
FirstMatch(patterns, t, k) ==
    IF k > Len(patterns) THEN [ok |-> FALSE]
    ELSE IF ReSearch(patterns[k], t, TRUE).ok THEN ReSearch(patterns[k], t, TRUE)
    ELSE FirstMatch(patterns, t, k + 1)

\* extracted[field] = the first group of m and the suffix, if the field is
\* asked for and m is a match
Found(extracted, field, fields, t, m, suffix) ==
    IF (\E k \in 1..Len(fields) : fields[k] = field) /\ m.ok
    THEN Put(extracted, field, Group(t, m, 1) \o suffix)
    ELSE extracted

\* lines 403-457, for the fields supporters and achievement_rate: every
\* other rule writes a field only if it is in missing_fields, and the
\* requests of the model ask for these two only
extract_crowdfunding_info_from_text(t, fields) ==
    Found(Found(<<>>, "supporters", fields, t, FirstMatch(supporter_patterns, t, 1), <<>>),
          "achievement_rate", fields, t, FirstMatch(rate_patterns, t, 1), <<"%">>)

\* lines 348-351: the field is written from the extracted information
Writes(data, info, fields, field) ==
    /\ field \in DOMAIN info
    /\ \E k \in 1..Len(fields) : fields[k] = field
    /\ info[field] \notin {None, <<>>}
    /\ Get(data, field, None) \in {None} \cup Placeholders

\* lines 347-353 and 356-361: the data after the loop over the extracted
\* information
Enhanced(data, info, fields) ==
    [f \in DOMAIN data \cup {g \in DOMAIN info : Writes(data, info, fields, g)} |->
        IF Writes(data, info, fields, f) THEN info[f] ELSE data[f]]

\* line 352: the scores after the loop over the information extracted from
\* the English text
Scored(scores, data, info, fields) ==
    [k \in DOMAIN scores \cup {g \in DOMAIN info : Writes(data, info, fields, g)} |->
        IF Writes(data, info, fields, k) THEN 80 ELSE scores[k]]

\* the requests: the data of a project, the fields to look for, and for
\* each image what requests.get and the two calls of run_ocr give (status
\* is the HTTP status, or "error" if the download raises)
ProjectVocab == {
    [title |-> <<"L", "a", "m", "p">>, supporters |-> <<"-">>],
    [title |-> <<"セ", "ー", "ル">>, description |-> <<"A", " ", "l", "a", "m", "p">>, supporters |-> <<"7">>, achievement_rate |-> <<>>]
}
MissingVocab == {<<>>, <<"supporters">>, <<"supporters", "achievement_rate">>}
ImageVocab == {
    [status |-> "error", ocr_successful |-> FALSE, english_text |-> <<>>, original_text |-> <<>>],
    [status |-> "404", ocr_successful |-> FALSE, english_text |-> <<>>, original_text |-> <<>>],
    [status |-> "200", ocr_successful |-> TRUE, english_text |-> <<>>, original_text |-> <<>>],
    [status |-> "200", ocr_successful |-> TRUE, english_text |-> <<"1", "2", "0", " ", "b", "a", "c", "k", "e", "r", "s">>, original_text |-> <<"1", "2", "0", " ", "b", "a", "c", "k", "e", "r", "s">>],
    [status |-> "200", ocr_successful |-> TRUE, english_text |-> <<"9", "5", "%", " ", "f", "u", "n", "d", "e", "d", " ", "3", "0", "0", " ", "b", "a", "c", "k", "e", "r", "s">>,
     original_text |-> <<"9", "5", "%", " ", "f", "u", "n", "d", "e", "d", " ", "3", "0", "0", " ", "b", "a", "c", "k", "e", "r", "s">>],
    [status |-> "200", ocr_successful |-> FALSE, english_text |-> <<"4", "5", " ", "b", "a", "c", "k", "e", "r", "s">>, original_text |-> <<"4", "5", " ", "b", "a", "c", "k", "e", "r", "s">>],
    [status |-> "200", ocr_successful |-> FALSE, english_text |-> <<"O", "C", "R", " ", "p", "r", "o", "c", "e", "s", "s", "i", "n", "g", " ", "f", "a", "i", "l", "e", "d", ":", " ", "b", "o", "o", "m">>,
     original_text |-> <<"O", "C", "R", " ", "p", "r", "o", "c", "e", "s", "s", "i", "n", "g", " ", "f", "a", "i", "l", "e", "d", ":", " ", "b", "o", "o", "m">>]
}

\* lines 277-284
Request(data, fields, imgs) ==
    /\ pc = "input"
    /\ pc' = "translate"
    /\ project_data' = data
    /\ missing_fields' = fields
    /\ images' = imgs
    /\ enhanced_data_english' = data
    /\ enhanced_data_original' = data
    /\ confidence_scores' = <<>>
    /\ processed_images' = 0
    /\ UNCHANGED <<text, out1, out2, word, amount, ocrVars, nlpVars, image_index, overall_confidence, scanVars>>

\* the key of confidence_scores for a translated field
TranslationKey == [title |-> "title_translation", description |-> "description_translation",
                   project_owner |-> "project_owner_translation"]

\* line 290: the field is translated
IsTranslated(data, field) ==
    /\ field \in {"title", "description", "project_owner"}
    /\ field \in DOMAIN data
    /\ data[field] \notin {None, <<>>}

\* lines 288-302; outcome is what the translator does when it is called
TranslateFields(outcome) ==
    /\ pc = "translate"
    /\ outcome.ok => \E f \in DOMAIN project_data :
                         IsTranslated(project_data, f) /\ CallsTranslator(project_data[f])
    /\ pc' = "images"
    /\ enhanced_data_english' =
           [f \in DOMAIN project_data |->
               IF IsTranslated(project_data, f)
               THEN translate_to_english(project_data[f], outcome).english_text
               ELSE project_data[f]]
    /\ confidence_scores' =
           [k \in {TranslationKey[f] : f \in {g \in DOMAIN project_data : IsTranslated(project_data, g)}} |->
               translate_to_english(
                   project_data[CHOOSE f \in DOMAIN TranslationKey : TranslationKey[f] = k],
                   outcome).translation_confidence]
    /\ UNCHANGED <<text, out1, out2, word, amount, ocrVars, nlpVars, project_data, missing_fields, images,
                   image_index, enhanced_data_original, processed_images, overall_confidence, scanVars>>

\* lines 306-372 for one image: it is used if it was downloaded and one of
\* the two texts read from it is not blank
IsUsed(img) ==
    /\ img.status = "200"
    /\ Len(Strip(img.english_text)) > 0 \/ Len(Strip(img.original_text)) > 0

ProcessImage ==
    /\ pc = "images"
    /\ image_index <= Len(images)
    /\ image_index' = image_index + 1
    /\ IF IsUsed(images[image_index])
       THEN /\ enhanced_data_english' =
                   Enhanced(enhanced_data_english,
                            extract_crowdfunding_info_from_text(images[image_index].english_text, missing_fields),
                            missing_fields)
            /\ confidence_scores' =
                   Scored(confidence_scores, enhanced_data_english,
                          extract_crowdfunding_info_from_text(images[image_index].english_text, missing_fields),
                          missing_fields)
            /\ enhanced_data_original' =
                   Enhanced(enhanced_data_original,
                            extract_crowdfunding_info_from_text(images[image_index].original_text, missing_fields),
                            missing_fields)
            /\ processed_images' = processed_images + 1
       ELSE UNCHANGED <<enhanced_data_english, enhanced_data_original, confidence_scores, processed_images>>
    /\ UNCHANGED <<pc, text, out1, out2, word, amount, ocrVars, nlpVars, project_data, missing_fields, images,
                   overall_confidence, scanVars>>

\* round(n / m, 2) in hundredths
Round2(n, m) == (200 * n + m) \div (2 * m)

\* lines 374-392
Respond ==
    /\ pc = "images"
    /\ image_index > Len(images)
    /\ pc' = "responded"
    /\ overall_confidence' =
           IF Len(missing_fields) > 0
           THEN Round2(Cardinality(DOMAIN confidence_scores), Len(missing_fields))
           ELSE 100
    /\ UNCHANGED <<text, out1, out2, word, amount, ocrVars, nlpVars, project_data, missing_fields, images,
                   image_index, enhanced_data_english, enhanced_data_original, confidence_scores,
                   processed_images, scanVars>>

NextEnhance ==
    \/ \E data \in ProjectVocab, fields \in MissingVocab :
           \E imgs \in UNION {[1..n -> ImageVocab] : n \in 0..MaxImages} : Request(data, fields, imgs)
    \/ \E outcome \in {[ok |-> FALSE, text |-> <<>>], [ok |-> TRUE, text |-> <<"S", "a", "l", "e">>]} : TranslateFields(outcome)
    \/ ProcessImage
    \/ Respond

SpecEnhance == Init /\ [][NextEnhance]_vars

\* the step of the loop of line 303 for the image at image_index
ImageStep == pc = "images" /\ image_index' = image_index + 1

\* the download of the image fails (requests.get raises, or the status is
\* not 200), or run_ocr fails on it (ocr_successful is False)
HasFailed(img) == img.status # "200" \/ ~img.ocr_successful

\* the fields of the dictionary that the step changes were missing and
\* asked for
ChangesOnlyMissing(before, after) ==
    /\ DOMAIN before \subseteq DOMAIN after
    /\ \A f \in DOMAIN after :
           Get(before, f, None) # after[f] =>
               /\ \E k \in 1..Len(missing_fields) : missing_fields[k] = f
               /\ Get(before, f, None) \in {None} \cup Placeholders

\* C28: while the images are gone through in order, a field is written
\* from an image only if it is in missing_fields and its value is empty or
\* one of '', '-', 'Unknown', 'N/A', so a field that has a value is not
\* changed by a later image; a field that is not in missing_fields has in
\* enhanced_data_original the value of project_data; an image whose
\* download or OCR fails is skipped (nothing is written or counted for
\* it) and the loop goes on with the next image.
C28_ImagesInOrder ==
    /\ [][ImageStep =>
              /\ ChangesOnlyMissing(enhanced_data_english, enhanced_data_english')
              /\ ChangesOnlyMissing(enhanced_data_original, enhanced_data_original')]_vars
    /\ [](pc \in {"translate", "images", "responded"} =>
              \A f \in DOMAIN project_data :
                  (\A k \in 1..Len(missing_fields) : missing_fields[k] # f) =>
                      /\ f \in DOMAIN enhanced_data_original
                      /\ enhanced_data_original[f] = project_data[f])
    /\ [][ImageStep /\ HasFailed(images[image_index]) =>
              /\ pc' = "images"
              /\ UNCHANGED <<enhanced_data_english, enhanced_data_original, confidence_scores,
                             processed_images>>]_vars

\* C29: the overall_confidence of the response is between 0 and 1, and
\* images_processed is at most the number of images of the request.
C29_ConfidenceInRange ==
    pc = "responded" =>
        /\ overall_confidence \in 0..100
        /\ processed_images <= Len(images)

(***************************************************************************)
(* services/ocr_service.py: the loops of run_ocr over the variants of the  *)
(* image and over the readers (lines 341-359).                             *)
(***************************************************************************)
MaxVariants == 3

\* lines 326-339
readers_to_try(lang) ==
    CASE lang = "en" -> <<"reader_en_only">>
      [] lang = "ja" -> <<"reader_en_ja", "reader_en_only">>
      [] lang = "ko" -> <<"reader_en_ko", "reader_en_only">>
      [] lang = "ch_sim" -> <<"reader_en_ch_sim", "reader_en_only">>
      [] lang = "ch_tra" -> <<"reader_en_ch_tra", "reader_en_only">>
      [] OTHER -> <<"reader_en_ja", "reader_en_ch_sim", "reader_en_only", "reader_en_ch_tra", "reader_en_ko">>

\* lines 267-302: the tag of each of the four calls of reader.readtext
Tags == <<<<"[", "P", "A", "R", "A", "G", "R", "A", "P", "H", "]", " ">>, <<"[", "D", "E", "T", "A", "I", "L", "]", " ">>, <<"[", "A", "G", "G", "R", "E", "S", "S", "I", "V", "E", "]", " ">>, <<"[", "C", "U", "R", "R", "E", "N", "C", "Y", "]", " ">>>>

\* lines 262-304: calls is what the four calls of reader.readtext do, each
\* raising or returning a list of texts; a call that raises is passed
\* over, the texts of the others are tagged and put together
RECURSIVE extract_text_with_multiple_methods(_, _)
extract_text_with_multiple_methods(calls, k) ==
    IF k > Len(calls) THEN <<>>
    ELSE (IF calls[k].raises THEN <<>>
          ELSE [j \in 1..Len(calls[k].texts) |-> Tags[k] \o calls[k].texts[j]])
         \o extract_text_with_multiple_methods(calls, k + 1)

\* a call of reader.readtext that raises, and one that returns n texts
Raises == [raises |-> TRUE, texts |-> <<>>]
Returns(n) == [raises |-> FALSE, texts |-> [j \in 1..n |-> <<"x">>]]

\* what a reader does on a variant of the image: it raises at every call,
\* finds nothing, finds five texts (and raises once), finds six
ReaderVocab == {
    <<Raises, Raises, Raises, Raises>>,
    <<Returns(0), Returns(0), Returns(0), Returns(0)>>,
    <<Returns(3), Raises, Returns(0), Returns(2)>>,
    <<Returns(3), Returns(3), Returns(0), Returns(0)>>
}

\* lines 318-341, for run_ocr(image_bytes, lang)
StartScan(lang) ==
    /\ pc = "input"
    /\ text = <<>>
    /\ all_results = <<>>
    /\ pc' = "scan"
    /\ language' = lang
    /\ variant' = 1
    /\ reader' = 1
    /\ invoked' = <<>>
    /\ UNCHANGED <<text, out1, out2, word, amount, ocrVars, nlpVars, apiVars>>

\* the entry of the log for the call of the reader at <<variant, reader>>
Invocation(calls, results) ==
    [variant |-> variant, reader |-> reader, results |-> Len(results),
     raised |-> \A k \in 1..Len(calls) : calls[k].raises]

\* the loop over the readers never leaves a variant early
InvokeAll(calls, results) ==
    /\ pc = "scan"
    /\ all_results' = all_results \o results
    /\ invoked' = Append(invoked, Invocation(calls, results))
    /\ IF reader = Len(readers_to_try(language))
       THEN IF Len(all_results') > 10 \/ variant = MaxVariants
            THEN pc' = "scanned" /\ UNCHANGED <<variant, reader>>
            ELSE pc' = pc /\ variant' = variant + 1 /\ reader' = 1
       ELSE pc' = pc /\ variant' = variant /\ reader' = reader + 1
    /\ UNCHANGED <<text, out1, out2, word, amount, result_index, unique_results, seen_texts,
                   original_text, total_results_found, ocr_successful, error, english_text,
                   translator, segments, nlpVars, apiVars, language>>

\* lines 343-359: one turn of the loop over the readers, for the reader at
\* <<variant, reader>>, with the end of the turn of the loop over the
\* variants when the reader is the last one tried on the variant
Invoke(calls, results) ==
    /\ pc = "scan"
    /\ all_results' = all_results \o results
    /\ invoked' = Append(invoked, Invocation(calls, results))
    /\ IF Len(results) > 5 \/ reader = Len(readers_to_try(language))
       THEN IF Len(all_results') > 10 \/ variant = MaxVariants
            THEN pc' = "scanned" /\ UNCHANGED <<variant, reader>>
            ELSE pc' = pc /\ variant' = variant + 1 /\ reader' = 1
       ELSE pc' = pc /\ variant' = variant /\ reader' = reader + 1
    /\ UNCHANGED <<text, out1, out2, word, amount, result_index, unique_results, seen_texts,
                   original_text, total_results_found, ocr_successful, error, english_text,
                   translator, segments, nlpVars, apiVars, language>>

NextScan ==
    \/ \E lang \in {"en", "ja"} : StartScan(lang)
    \/ \E calls \in ReaderVocab : Invoke(calls, extract_text_with_multiple_methods(calls, 1))

SpecScan == Init /\ [][NextScan]_vars

\* the number of results of the first k calls of the log
RECURSIVE ResultsUpTo(_, _)
ResultsUpTo(log, k) == IF k = 0 THEN 0 ELSE ResultsUpTo(log, k - 1) + log[k].results

\* the call b comes next after the call a, the k-th of the log
ComesNext(log, k, a, b) ==
    \/ /\ a.results <= 5
       /\ a.reader < Len(readers_to_try(language))
       /\ b.variant = a.variant
       /\ b.reader = a.reader + 1
    \/ /\ a.results > 5 \/ a.reader = Len(readers_to_try(language))
       /\ ResultsUpTo(log, k) <= 10
       /\ b.variant = a.variant + 1
       /\ b.reader = 1

\* C30: run_ocr goes through the variants in the order of the list and, on
\* each, through the readers in the order of the list; after a reader has
\* returned more than 5 results no other reader is called on the variant;
\* when more than 10 results have been gathered at the end of a variant no
\* other variant is gone through; a reader that raises adds no result and
\* the next reader is called.  The loops end only when a variant has ended
\* with more than 10 results gathered or the last variant has ended.
C30_ScanOrder ==
    pc \in {"scan", "scanned"} =>
        /\ Len(invoked) > 0 => invoked[1].variant = 1 /\ invoked[1].reader = 1
        /\ \A k \in 1..(Len(invoked) - 1) : ComesNext(invoked, k, invoked[k], invoked[k + 1])
        /\ \A k \in 1..Len(invoked) :
               /\ invoked[k].raised => invoked[k].results = 0
               /\ invoked[k].raised /\ invoked[k].reader < Len(readers_to_try(language)) /\ pc = "scanned" =>
                      /\ k < Len(invoked)
                      /\ invoked[k + 1].variant = invoked[k].variant
                      /\ invoked[k + 1].reader = invoked[k].reader + 1
        /\ Len(all_results) = ResultsUpTo(invoked, Len(invoked))
        /\ pc = "scanned" =>
               /\ Len(invoked) > 0
               /\ invoked[Len(invoked)].results > 5
                      \/ invoked[Len(invoked)].reader = Len(readers_to_try(language))
               /\ Len(all_results) > 10 \/ invoked[Len(invoked)].variant = MaxVariants

\* a scan in which a reader raised and the next one was called, a reader
\* returned more than 5 results before the last reader had its turn, and
\* the variants left were not gone through
C30_EarlyEnd ==
    /\ pc = "scanned"
    /\ \E k \in 1..Len(invoked) : invoked[k].raised /\ invoked[k].reader < Len(readers_to_try(language))
    /\ \E k \in 1..Len(invoked) : invoked[k].results > 5 /\ invoked[k].reader < Len(readers_to_try(language))
    /\ invoked[Len(invoked)].variant < MaxVariants

====
